---- MODULE Spec2Model ----
(***************************************************************************)
(* Upload route of the 3D data visualisation server                        *)
(* (server/src/routes/upload.js, the "enhanced" router.post('/') handler)  *)
(* as a state machine: one action per synchronous stretch of the handler   *)
(* between two awaits, and one action per stream callback of parseCSV.     *)
(*                                                                         *)
(* Text is a sequence of one-character strings, so that path.extname,      *)
(* toLowerCase and trim are computed and not assumed.  A row (a JS object) *)
(* is a sequence of <<key, value>> pairs in the object's key order.        *)
(*                                                                         *)
(* Spec is the service handling upload requests one after another;         *)
(* SpecRecorded is the same service with an observer that records what     *)
(* each caller was answered, for properties that compare two requests.     *)
(***************************************************************************)
EXTENDS Integers, Sequences, FiniteSets, TLC

(***************************************************************************)
(* Bounds of the model.                                                    *)
(***************************************************************************)
\* The row limit of upload.js:362 and :409 (100000 there), scaled down so that
\* a parse can be stepped row by row past it.  It stays above PreviewSize.
RowLimit == 6
\* Number of upload requests the service handles in one behaviour.
MaxRequests == 2
\* Length of the CSV files that are enumerated line by line over CsvLineSet.
MaxShortLines == 2

(***************************************************************************)
(* Program constants.                                                      *)
(***************************************************************************)
\* upload.js:359  if (previewRows.length < 5)   /  :429 rows.slice(0, 5)
PreviewSize == 5
\* upload.js:296  const maxSize = 50 * 1024 * 1024
maxSize == 50 * 1024 * 1024
\* upload.js:401  raw.length > 10 * 1024 * 1024
JsonTextLimit == 10 * 1024 * 1024

(***************************************************************************)
(* Text helpers.                                                           *)
(***************************************************************************)
UpperChars == <<"A", "B", "C", "D", "E", "F", "G", "H", "I", "J", "K", "L", "M",
                "N", "O", "P", "Q", "R", "S", "T", "U", "V", "W", "X", "Y", "Z">>
LowerChars == <<"a", "b", "c", "d", "e", "f", "g", "h", "i", "j", "k", "l", "m",
                "n", "o", "p", "q", "r", "s", "t", "u", "v", "w", "x", "y", "z">>

\* String.prototype.toLowerCase on one character (ASCII letters).
LowerChar(c) ==
    IF \E i \in 1..26 : UpperChars[i] = c
    THEN LowerChars[CHOOSE i \in 1..26 : UpperChars[i] = c]
    ELSE c

\* String.prototype.toLowerCase.
toLowerCase(s) == [i \in 1..Len(s) |-> LowerChar(s[i])]

\* String.prototype.toUpperCase on one character (ASCII letters).
UpperChar(c) ==
    IF \E i \in 1..26 : LowerChars[i] = c
    THEN UpperChars[CHOOSE i \in 1..26 : LowerChars[i] = c]
    ELSE c

\* String.prototype.toUpperCase.
toUpperCase(s) == [i \in 1..Len(s) |-> UpperChar(s[i])]

WhiteSpace == {" ", "\t"}

RECURSIVE TrimStart(_)
TrimStart(s) ==
    IF s # <<>> /\ Head(s) \in WhiteSpace THEN TrimStart(Tail(s)) ELSE s

RECURSIVE TrimEnd(_)
TrimEnd(s) ==
    IF s # <<>> /\ s[Len(s)] \in WhiteSpace
    THEN TrimEnd(SubSeq(s, 1, Len(s) - 1))
    ELSE s

\* String.prototype.trim.
trim(s) == TrimEnd(TrimStart(s))

\* Index of the last "." of s, 0 when there is none.
LastDot(s) ==
    IF \E i \in 1..Len(s) : s[i] = "."
    THEN CHOOSE i \in 1..Len(s) : s[i] = "." /\ \A j \in (i + 1)..Len(s) : s[j] # "."
    ELSE 0

\* path.extname of a name without directory separators: from the last "." to
\* the end; "" when there is no "." or the only "." is the first character.
extname(s) ==
    LET d == LastDot(s)
    IN IF d <= 1 THEN <<>> ELSE SubSeq(s, d, Len(s))

ExtCsv == <<".", "c", "s", "v">>
ExtJson == <<".", "j", "s", "o", "n">>

(***************************************************************************)
(* JS objects as ordered key/value sequences.                              *)
(***************************************************************************)
\* Object.keys(o)
ObjectKeys(o) == [i \in 1..Len(o) |-> o[i][1]]

\* o[k] = v : overwrite in place when the key exists, append otherwise.
ObjSet(o, k, v) ==
    IF \E i \in 1..Len(o) : o[i][1] = k
    THEN [i \in 1..Len(o) |-> IF o[i][1] = k THEN <<k, v>> ELSE o[i]]
    ELSE Append(o, <<k, v>>)

\* Set.prototype.add on an insertion-ordered Set kept as a sequence.
SetAdd(s, k) ==
    IF \E i \in 1..Len(s) : s[i] = k THEN s ELSE Append(s, k)

RECURSIVE SetAddAll(_, _)
SetAddAll(s, ks) ==
    IF ks = <<>> THEN s ELSE SetAddAll(SetAdd(s, Head(ks)), Tail(ks))

Min(a, b) == IF a <= b THEN a ELSE b

RECURSIVE Repeat(_, _)
Repeat(x, n) == IF n = 0 THEN <<>> ELSE <<x>> \o Repeat(x, n - 1)

\* Array.prototype.slice(0, n)
SliceTo(s, n) == SubSeq(s, 1, Min(n, Len(s)))

(***************************************************************************)
(* The csv-parser stream as the handler configures it.                     *)
(***************************************************************************)
Digits == <<"0", "1", "2", "3", "4", "5", "6", "7", "8", "9">>

\* upload.js:341-345  csvParser({ skipEmptyLines: true, trim: true, headers: true })
\* `skipEmptyLines` and `trim` are no options of the csv-parser package and are
\* ignored by it.  `headers` is a list of names, false, or absent; any truthy
\* value stops the parser from taking the first line as the header line, and a
\* value that is no list has no name at any index, so the cell at index i of
\* EVERY line (the first included) is delivered under the key "_i".
csvParserRow(cells) ==
    [i \in 1..Len(cells) |-> << <<"_", Digits[i]>>, cells[i] >>]

\* The rows a whole file delivers as 'data' events, in order.
csvParserRows(lines) == [i \in 1..Len(lines) |-> csvParserRow(lines[i])]

\* Mutant: no limit on the number of rows.
rowLimitExceeded_never(n) == FALSE

\* Mutant: the limit test written with >=.
rowLimitExceeded_inclusive(n) == n >= RowLimit

\* upload.js:362  rowCount > 100000   /  :409  rows.length > 100000
rowLimitExceeded(n) == n > RowLimit

\* Mutant: the preview test written with <=.
previewAfter_inclusive(preview, cleanRow) ==
    IF Len(preview) <= PreviewSize THEN Append(preview, cleanRow) ELSE preview

\* upload.js:359  if (previewRows.length < 5) previewRows.push(cleanRow)
previewAfter(preview, cleanRow) ==
    IF Len(preview) < PreviewSize THEN Append(preview, cleanRow) ELSE preview

\* upload.js:351-356  the cleanRow built by the 'data' handler.
RECURSIVE cleanRowOf(_, _)
cleanRowOf(row, acc) ==
    IF row = <<>> THEN acc
    ELSE cleanRowOf(Tail(row), ObjSet(acc, trim(Head(row)[1]), Head(row)[2]))

\* Mutant: the column list taken from the first row alone.
columnsAfter_firstRowOnly(set, row) ==
    IF set = <<>> THEN SetAddAll(set, [i \in 1..Len(row) |-> trim(row[i][1])])
    ELSE set

\* upload.js:352-355  columnsSet.add(cleanKey) for every key of the row.
columnsAfter(set, row) ==
    SetAddAll(set, [i \in 1..Len(row) |-> trim(row[i][1])])

(***************************************************************************)
(* JSON values (the result of JSON.parse).                                 *)
(***************************************************************************)
JNull == [t |-> "null", kv |-> <<>>, items |-> <<>>, n |-> 0]
JNum(v) == [t |-> "number", kv |-> <<>>, items |-> <<>>, n |-> v]
JObj(pairs) == [t |-> "object", kv |-> pairs, items |-> <<>>, n |-> 0]
JArr(elems) == [t |-> "array", kv |-> <<>>, items |-> elems, n |-> 0]

\* Mutant: the parsed value wrapped whether or not it is an array.
jsonRows_alwaysWrap(jsonData) == <<jsonData>>

\* upload.js:406  Array.isArray(jsonData) ? jsonData : [jsonData]
jsonRows(jsonData) ==
    IF jsonData.t = "array" THEN jsonData.items ELSE <<jsonData>>

\* upload.js:418  row && typeof row === 'object'
IsObjectRow(row) == row.t \in {"object", "array"}

\* Object.keys of a JSON value that is an object or an array.
jsonKeys(row) ==
    IF row.t = "object" THEN ObjectKeys(row.kv)
    ELSE [i \in 1..Len(row.items) |-> <<Digits[i]>>]

(***************************************************************************)
(* Numbers of the client: a JavaScript number is an IEEE 754 binary64      *)
(* value.  A finite number is sign s, significand m and exponent e with    *)
(* value (-1)^s * m * 2^e; m is a natural number of exactly Precision bits *)
(* (or zero), held as a list of limbs of LimbBits bits, lowest limb first, *)
(* because the significand does not fit a 32-bit integer.                 *)
(* Every operation computes the exact result and rounds it to nearest,     *)
(* ties to even.  Infinities, NaN and subnormal numbers are not modelled:  *)
(* the exponents of the numbers below stay far inside the exponent range.  *)
(***************************************************************************)
Precision == 53
LimbBits == 15
Base == 2^LimbBits

RECURSIVE NatNorm(_)
NatNorm(x) ==
    IF x # <<>> /\ x[Len(x)] = 0 THEN NatNorm(SubSeq(x, 1, Len(x) - 1)) ELSE x

RECURSIVE NatFromInt(_)
NatFromInt(n) == IF n = 0 THEN <<>> ELSE <<n % Base>> \o NatFromInt(n \div Base)

RECURSIVE NatAddC(_, _, _)
NatAddC(x, y, c) ==
    IF x = <<>> /\ y = <<>> THEN (IF c = 0 THEN <<>> ELSE <<c>>)
    ELSE LET a == IF x = <<>> THEN 0 ELSE Head(x)
             b == IF y = <<>> THEN 0 ELSE Head(y)
             t == a + b + c
         IN <<t % Base>> \o NatAddC(IF x = <<>> THEN <<>> ELSE Tail(x),
                                    IF y = <<>> THEN <<>> ELSE Tail(y),
                                    t \div Base)

NatAdd(x, y) == NatAddC(x, y, 0)

\* x - y for x >= y
RECURSIVE NatSubB(_, _, _)
NatSubB(x, y, b) ==
    IF x = <<>> THEN <<>>
    ELSE LET d == Head(x) - (IF y = <<>> THEN 0 ELSE Head(y)) - b
         IN <<d % Base>> \o NatSubB(Tail(x), IF y = <<>> THEN <<>> ELSE Tail(y),
                                    IF d < 0 THEN 1 ELSE 0)

NatSub(x, y) == NatNorm(NatSubB(x, y, 0))

RECURSIVE NatCmpAt(_, _, _)
NatCmpAt(x, y, i) ==
    IF i = 0 THEN 0
    ELSE IF x[i] > y[i] THEN 1
    ELSE IF x[i] < y[i] THEN -1
    ELSE NatCmpAt(x, y, i - 1)

\* 1, 0 or -1 as x is greater than, equal to or less than y
NatCmp(x, y) ==
    IF Len(x) > Len(y) THEN 1
    ELSE IF Len(x) < Len(y) THEN -1
    ELSE NatCmpAt(x, y, Len(x))

\* x * k + c for a limb k
RECURSIVE NatMulSmall(_, _, _)
NatMulSmall(x, k, c) ==
    IF x = <<>> THEN (IF c = 0 THEN <<>> ELSE <<c>>)
    ELSE LET p == Head(x) * k + c
         IN <<p % Base>> \o NatMulSmall(Tail(x), k, p \div Base)

RECURSIVE NatMulAcc(_, _)
NatMulAcc(x, y) ==
    IF y = <<>> THEN <<>>
    ELSE NatAdd(NatMulSmall(x, Head(y), 0), <<0>> \o NatMulAcc(x, Tail(y)))

NatMul(x, y) == NatNorm(NatMulAcc(x, y))

\* quotient and remainder of x by a limb d
RECURSIVE NatDivSmall(_, _)
NatDivSmall(x, d) ==
    IF x = <<>> THEN [q |-> <<>>, r |-> 0]
    ELSE LET hi == NatDivSmall(Tail(x), d)
             cur == hi.r * Base + Head(x)
         IN [q |-> <<cur \div d>> \o hi.q, r |-> cur % d]

\* x * 2^k
NatShl(x, k) ==
    IF x = <<>> THEN <<>>
    ELSE Repeat(0, k \div LimbBits) \o NatMulSmall(x, 2^(k % LimbBits), 0)

\* floor(x / 2^k)
NatShr(x, k) ==
    IF k \div LimbBits >= Len(x) THEN <<>>
    ELSE NatNorm(NatDivSmall(SubSeq(x, k \div LimbBits + 1, Len(x)),
                             2^(k % LimbBits)).q)

\* x mod 2^k
NatLowBits(x, k) == NatSub(x, NatShl(NatShr(x, k), k))

\* number of bits of x
NatBits(x) ==
    IF x = <<>> THEN 0
    ELSE (Len(x) - 1) * LimbBits
         + (CHOOSE b \in 1..LimbBits : 2^(b - 1) <= x[Len(x)] /\ x[Len(x)] < 2^b)

NatIsOdd(x) == x # <<>> /\ x[1] % 2 = 1

FZero(s) == [s |-> s, m |-> <<>>, e |-> 0]

IsZero(x) == x.m = <<>>

\* The number nearest to (-1)^s * (M + f) * 2^e, ties to even, where f is 0
\* or, when sticky, some fraction strictly between 0 and 1.
FRound(s, M, e, sticky) ==
    IF M = <<>> THEN FZero(s)
    ELSE LET n == NatBits(M)
         IN IF n <= Precision
            THEN [s |-> s, m |-> NatShl(M, Precision - n), e |-> e - (Precision - n)]
            ELSE LET k == n - Precision
                     q == NatShr(M, k)
                     c == NatCmp(NatLowBits(M, k), NatShl(<<1>>, k - 1))
                     up == c = 1 \/ (c = 0 /\ (sticky \/ NatIsOdd(q)))
                     q1 == IF up THEN NatAdd(q, <<1>>) ELSE q
                 IN IF NatBits(q1) > Precision
                    THEN [s |-> s, m |-> NatShr(q1, 1), e |-> e + k + 1]
                    ELSE [s |-> s, m |-> q1, e |-> e + k]

\* the number n (an integer of small magnitude, exactly representable)
FromInt(n) ==
    IF n < 0 THEN FRound(1, NatFromInt(-n), 0, FALSE)
    ELSE FRound(0, NatFromInt(n), 0, FALSE)

\* -x
FNeg(x) == [x EXCEPT !.s = 1 - x.s]

\* Math.abs(x)
MathAbs(x) == [x EXCEPT !.s = 0]

\* 1, 0 or -1 as |x| is greater than, equal to or less than |y|
MagCmp(x, y) ==
    IF IsZero(x) /\ IsZero(y) THEN 0
    ELSE IF IsZero(x) THEN -1
    ELSE IF IsZero(y) THEN 1
    ELSE IF x.e > y.e THEN 1
    ELSE IF x.e < y.e THEN -1
    ELSE NatCmp(x.m, y.m)

\* x < y
FLt(x, y) ==
    IF IsZero(x) /\ IsZero(y) THEN FALSE
    ELSE IF IsZero(x) THEN y.s = 0
    ELSE IF IsZero(y) THEN x.s = 1
    ELSE IF x.s # y.s THEN x.s = 1
    ELSE IF x.s = 0 THEN MagCmp(x, y) = -1
    ELSE MagCmp(x, y) = 1

\* x === y
FEq(x, y) == (IsZero(x) /\ IsZero(y)) \/ x = y

\* x <= y
FLe(x, y) == FLt(x, y) \/ FEq(x, y)

\* x + y
FAdd(x, y) ==
    IF IsZero(x) /\ IsZero(y) THEN FZero(IF x.s = 1 /\ y.s = 1 THEN 1 ELSE 0)
    ELSE IF IsZero(x) THEN y
    ELSE IF IsZero(y) THEN x
    ELSE IF x.e - y.e > 2 * Precision + 4 THEN x
    ELSE IF y.e - x.e > 2 * Precision + 4 THEN y
    ELSE LET e == IF x.e < y.e THEN x.e ELSE y.e
             X == NatShl(x.m, x.e - e)
             Y == NatShl(y.m, y.e - e)
             c == NatCmp(X, Y)
         IN IF x.s = y.s THEN FRound(x.s, NatAdd(X, Y), e, FALSE)
            ELSE IF c = 0 THEN FZero(0)
            ELSE IF c = 1 THEN FRound(x.s, NatSub(X, Y), e, FALSE)
            ELSE FRound(y.s, NatSub(Y, X), e, FALSE)

\* x - y
FSub(x, y) == FAdd(x, FNeg(y))

\* x * y
FMul(x, y) ==
    IF IsZero(x) \/ IsZero(y) THEN FZero((x.s + y.s) % 2)
    ELSE FRound((x.s + y.s) % 2, NatMul(x.m, y.m), x.e + y.e, FALSE)

\* Long division, one bit of the quotient a step: k steps from [q |-> 0,
\* r |-> n] with n < 2 * d leave q = floor(n * 2^(k-1) / d), and r = 0 exactly
\* when that quotient is exact.
RECURSIVE DivSteps(_, _, _)
DivSteps(st, d, k) ==
    IF k = 0 THEN st
    ELSE LET ge == NatCmp(st.r, d) >= 0
             r1 == IF ge THEN NatSub(st.r, d) ELSE st.r
             nx == [q |-> NatAdd(NatAdd(st.q, st.q), IF ge THEN <<1>> ELSE <<>>),
                    r |-> NatAdd(r1, r1)]
         IN IF nx.r = <<>> THEN [q |-> NatShl(nx.q, k - 1), r |-> <<>>]
            ELSE DivSteps(nx, d, k - 1)

\* 8 * n steps of the long division, in rounds of 8 steps
RECURSIVE DivRounds(_, _, _)
DivRounds(st, d, n) ==
    IF n = 0 THEN st
    ELSE LET prev == DivRounds(st, d, n - 1)
         IN IF prev.r = <<>> THEN [q |-> NatShl(prev.q, 8), r |-> <<>>]
            ELSE DivSteps(prev, d, 8)

\* x / y for y other than zero: 56 steps give a quotient of at least
\* Precision + 2 bits, and what is left of the dividend decides ties.
FDiv(x, y) ==
    IF IsZero(x) THEN FZero((x.s + y.s) % 2)
    ELSE LET d == DivRounds([q |-> <<>>, r |-> x.m], y.m, 7)
         IN IF d.r = <<>>
            THEN FRound((x.s + y.s) % 2, d.q, x.e - y.e - 55, FALSE)
            ELSE FRound((x.s + y.s) % 2, d.q, x.e - y.e - 55, TRUE)

\* Math.max(x, y)
MathMax2(x, y) == IF FLt(x, y) THEN y ELSE IF FLt(y, x) THEN x
                  ELSE IF x.s = 0 THEN x ELSE y

\* Math.min(x, y)
MathMin2(x, y) == IF FLt(x, y) THEN x ELSE IF FLt(y, x) THEN y
                  ELSE IF x.s = 1 THEN x ELSE y

\* the numbers 0 and 1
F0 == FromInt(0)
F1 == FromInt(1)

\* the literals 1.1, 0.1 and 0.5: the numbers nearest to 11/10, 1/10 and 1/2
Lit1_1 == FDiv(FromInt(11), FromInt(10))
Lit0_1 == FDiv(FromInt(1), FromInt(10))
Lit0_5 == FDiv(FromInt(1), FromInt(2))

\* Math.min(...values) for a non-empty list
RECURSIVE MathMin(_)
MathMin(values) ==
    IF Len(values) = 1 THEN values[1]
    ELSE MathMin2(values[1], MathMin(Tail(values)))

\* Math.max(...values) for a non-empty list
RECURSIVE MathMax(_)
MathMax(values) ==
    IF Len(values) = 1 THEN values[1]
    ELSE MathMax2(values[1], MathMax(Tail(values)))

(***************************************************************************)
(* The axis scales of the visualizer, Visualizer3D.tsx:251-301, and the    *)
(* linear scale of d3 they are built on.                                   *)
(***************************************************************************)
\* d3.scaleLinear().domain(domain).range(range)
scaleLinear(domain, range) == [domain |-> domain, range |-> range]

\* d3-scale, normalize(a, b)(x): (x - a) / (b - a), and the constant 0.5 when
\* b - a is zero.
normalize(a, b, x) ==
    IF IsZero(FSub(b, a)) THEN Lit0_5 ELSE FDiv(FSub(x, a), FSub(b, a))

\* Mutant: the interpolation written a + (b - a) * t.
interpolateNumber_fromStart(a, b, t) == FAdd(a, FMul(FSub(b, a), t))

\* d3-interpolate, interpolateNumber(a, b)(t): a * (1 - t) + b * t
interpolateNumber(a, b, t) == FAdd(FMul(a, FSub(F1, t)), FMul(b, t))

\* The scale applied to x (d3-scale, bimap): scale(x).
bimap(scale, x) ==
    LET d0 == scale.domain[1]
        d1 == scale.domain[2]
        r0 == scale.range[1]
        r1 == scale.range[2]
    IN IF FLt(d1, d0) THEN interpolateNumber(r1, r0, normalize(d1, d0, x))
       ELSE interpolateNumber(r0, r1, normalize(d0, d1, x))

\* Visualizer3D.tsx:253-255  no value
emptyScale(targetRange) ==
    scaleLinear(<<F0, F1>>, <<FNeg(targetRange), targetRange>>)

\* Visualizer3D.tsx:260-265  min === max
degenerateScale(min, targetRange) ==
    LET center == IF FEq(min, F0) THEN F0 ELSE min
    IN scaleLinear(<<FSub(center, F1), FAdd(center, F1)>>,
                   <<FNeg(targetRange), targetRange>>)

\* Mutant: only the positive side padded.
spansZeroScale_padPositive(min, max, targetRange) ==
    LET negativeWithPadding == MathAbs(min)
        positiveWithPadding == FMul(max, Lit1_1)
        totalWithPadding == FAdd(negativeWithPadding, positiveWithPadding)
        negativeTargetRange ==
            FMul(FDiv(negativeWithPadding, totalWithPadding), FMul(targetRange, FromInt(2)))
        positiveTargetRange ==
            FMul(FDiv(positiveWithPadding, totalWithPadding), FMul(targetRange, FromInt(2)))
    IN scaleLinear(<<FNeg(negativeWithPadding), positiveWithPadding>>,
                   <<FNeg(negativeTargetRange), positiveTargetRange>>)

\* Visualizer3D.tsx:267-280  min < 0 && max > 0
spansZeroScale(min, max, targetRange) ==
    LET negativeRange == MathAbs(min)
        positiveRange == max
        negativeWithPadding == FMul(negativeRange, Lit1_1)
        positiveWithPadding == FMul(positiveRange, Lit1_1)
        totalWithPadding == FAdd(negativeWithPadding, positiveWithPadding)
        negativeTargetRange ==
            FMul(FDiv(negativeWithPadding, totalWithPadding), FMul(targetRange, FromInt(2)))
        positiveTargetRange ==
            FMul(FDiv(positiveWithPadding, totalWithPadding), FMul(targetRange, FromInt(2)))
    IN scaleLinear(<<FNeg(negativeWithPadding), positiveWithPadding>>,
                   <<FNeg(negativeTargetRange), positiveTargetRange>>)

\* Mutant: the lower end of the domain not clamped at 0.
nonNegativeScale_unclamped(min, max, targetRange) ==
    LET range == FSub(max, min)
        padding == FMul(range, Lit0_1)
    IN scaleLinear(<<FSub(min, padding), FAdd(max, padding)>>, <<F0, targetRange>>)

\* Visualizer3D.tsx:281-290  min >= 0
nonNegativeScale(min, max, targetRange) ==
    LET range == FSub(max, min)
        padding == FMul(range, Lit0_1)
        domainMin == MathMax2(F0, FSub(min, padding))
        domainMax == FAdd(max, padding)
    IN scaleLinear(<<domainMin, domainMax>>, <<F0, targetRange>>)

\* Visualizer3D.tsx:291-300  max <= 0
nonPositiveScale(min, max, targetRange) ==
    LET range == FSub(max, min)
        padding == FMul(range, Lit0_1)
        domainMin == FSub(min, padding)
        domainMax == MathMin2(F0, FAdd(max, padding))
    IN scaleLinear(<<domainMin, domainMax>>, <<FNeg(targetRange), F0>>)

\* Visualizer3D.tsx:252-301
createSignPreservingScale(values, targetRange) ==
    IF Len(values) = 0 THEN emptyScale(targetRange)
    ELSE LET min == MathMin(values)
             max == MathMax(values)
         IN IF FEq(min, max) THEN degenerateScale(min, targetRange)
            ELSE IF FLt(min, F0) /\ FLt(F0, max)
                 THEN spansZeroScale(min, max, targetRange)
            ELSE IF FLe(F0, min) THEN nonNegativeScale(min, max, targetRange)
            ELSE nonPositiveScale(min, max, targetRange)

(***************************************************************************)
(* Messages and responses.                                                 *)
(***************************************************************************)
ErrNoFile == "No file uploaded"
ErrUnsupported == "Unsupported file format"
ErrTooLarge == "File too large"
ErrProcessing == "File processing failed"

MsgSelectFile == "Please select a file to upload"
MsgOnlyCsvJson == "Only CSV and JSON files are supported"
MsgSizeLimit == "File size must be less than 50MB"
MsgNotFound == "File not found at path"
MsgRowLimit == "File too large. Maximum 100,000 rows allowed."
MsgCsvFail == "Failed to parse CSV"
MsgJsonTooLarge == "JSON file too large to process"
MsgJsonTooMany == "JSON file contains too many records. Maximum 100,000 records allowed."
MsgNoObjects == "No valid data objects found in JSON file"
MsgInvalidJson == "Invalid JSON format. Please check your file syntax."
MsgNoData == "No data found in file or file is empty"
MsgNoColumns == "No columns detected in file"

NoMeta == [rowCount |-> 0, columnCount |-> 0, fileSize |-> 0, fileName |-> <<>>]

\* No response sent yet.
NoRes ==
    [status |-> 0, success |-> FALSE, error |-> "", details |-> "",
     message |-> <<>>, headers |-> <<>>, data |-> <<>>, metadata |-> NoMeta]

\* res.status(s).json({ error, details })
ErrorRes(s, e, d) ==
    [status |-> s, success |-> FALSE, error |-> e, details |-> d,
     message |-> <<>>, headers |-> <<>>, data |-> <<>>, metadata |-> NoMeta]

\* upload.js:469  `${ext.toUpperCase().slice(1)} file uploaded and processed
\* successfully.`: the part of the message that varies.
uploadedMessage(e) == Tail(toUpperCase(e))

\* upload.js:467-478  res.json({ success: true, message, headers, data, metadata })
SuccessRes(md, data, f) ==
    [status |-> 200, success |-> TRUE, error |-> "", details |-> "",
     message |-> uploadedMessage(toLowerCase(extname(f.name))), headers |-> md.columns, data |-> data,
     metadata |-> [rowCount |-> md.rows, columnCount |-> Len(md.columns),
                   fileSize |-> f.size, fileName |-> f.name]]

\* upload.js:311-315
EmptyMetadata == [columns |-> <<>>, rows |-> 0, preview |-> <<>>]

(***************************************************************************)
(* The synchronous JSON branch of the handler, upload.js:392-440.          *)
(* Result: the message of the error thrown ("" when none), metadata and    *)
(* parsedData as the branch leaves them.                                   *)
(***************************************************************************)
\* Mutant: the columns taken from the last object-typed element.
FirstObjectRow_last(rows) ==
    CHOOSE i \in 1..Len(rows) :
        IsObjectRow(rows[i]) /\ \A j \in (i + 1)..Len(rows) : ~IsObjectRow(rows[j])

\* upload.js:416-423  the index of the first row with row && typeof row ===
\* 'object' (the loop breaks there).
FirstObjectRow(rows) ==
    CHOOSE i \in 1..Len(rows) :
        IsObjectRow(rows[i]) /\ \A j \in 1..(i - 1) : ~IsObjectRow(rows[j])

Thrown(msg) == [err |-> msg, metadata |-> EmptyMetadata, parsedData |-> <<>>]

jsonBranch(f, onDisk) ==
    IF ~onDisk THEN Thrown(MsgNotFound)
    ELSE IF f.textLen > JsonTextLimit THEN Thrown(MsgJsonTooLarge)
    ELSE IF ~f.jsonValid THEN Thrown(MsgInvalidJson)
    ELSE LET rows == jsonRows(f.json)
         IN IF rowLimitExceeded(Len(rows)) THEN Thrown(MsgJsonTooMany)
            ELSE IF ~\E i \in 1..Len(rows) : IsObjectRow(rows[i])
                 THEN Thrown(MsgNoObjects)
            ELSE [err |-> "",
                  metadata |-> [columns |-> jsonKeys(rows[FirstObjectRow(rows)]),
                                rows |-> Len(rows),
                                preview |-> SliceTo(rows, PreviewSize)],
                  parsedData |-> rows]

\* Mutant: the column check left out.
validateParsed_rowsOnly(data, md) ==
    IF Len(data) = 0 THEN MsgNoData ELSE ""

\* upload.js:442-449  the message thrown by the parsed-data validation, "" when
\* the data passes.
validateParsed(data, md) ==
    IF Len(data) = 0 THEN MsgNoData
    ELSE IF Len(md.columns) = 0 THEN MsgNoColumns
    ELSE ""

(***************************************************************************)
(* Uploaded files the environment may send.                                *)
(* A file is what multer hands over as req.file (originalname, size) and   *)
(* the bytes on disk, seen as csv-parser sees them (lines of cells) and as *)
(* JSON.parse sees them (jsonValid, json); textLen is raw.length.          *)
(***************************************************************************)
T1(a) == <<a>>
T2(a, b) == <<a, b>>

Lh == <<T1("x"), T1("y"), T1("z")>>
L1 == <<T1("1"), T1("2"), T1("3")>>
L2 == <<T1("4"), T1("5"), T1("6")>>
L3 == <<T1("7"), T1("8"), T1("9")>>
\* a ragged line, one cell more than the header line
Lr == <<T1("1"), T1("2"), T1("3"), T1("4")>>
\* cells with surrounding white space
Lw == <<T2(" ", "1"), T2("2", " ")>>
\* an empty line
Le == <<>>

CsvLineSet == {Lh, L1, Lw, Le}

\* x,y,z / 1,2,3 / 4,5,6 / 7,8,9
ScenarioCsv == <<Lh, L1, L2, L3>>

RECURSIVE SeqsUpTo(_, _)
SeqsUpTo(S, n) ==
    IF n = 0 THEN {<<>>}
    ELSE LET shorter == SeqsUpTo(S, n - 1)
         IN shorter \cup {Append(q, x) : q \in shorter, x \in S}

\* Non-empty CSV contents: every short file over CsvLineSet, files with a
\* ragged line, the scenario file, and a header line followed by up to
\* RowLimit + 1 data lines.
CsvContents ==
    (SeqsUpTo(CsvLineSet, MaxShortLines) \ {<<>>})
    \cup {<<Lh, Lr>>, <<Lh, L1, Lr>>, <<Lr, L1>>}
    \cup {ScenarioCsv}
    \cup {<<Lh>> \o Repeat(L1, k) : k \in 3..(RowLimit + 1)}

Ka == T1("a")
Kb == T1("b")
ObjA1 == JObj(<< <<Ka, JNum(1)>> >>)
ObjA2 == JObj(<< <<Ka, JNum(2)>> >>)
ObjBA == JObj(<< <<Kb, JNum(3)>>, <<Ka, JNum(4)>> >>)

JsonElems == {ObjA1, ObjBA, JNull, JArr(<<JNum(1)>>)}

\* Values a syntactically valid JSON text may parse to.
JsonValues ==
    {JArr(q) : q \in SeqsUpTo(JsonElems, MaxShortLines)}
    \cup {ObjA1, ObjBA, JNull, JNum(7), JObj(<<>>)}
    \cup {JArr(<<ObjA1, ObjA2>>), JArr(<<JObj(<<>>)>>), JArr(<<JArr(<<>>)>>),
          JArr(<<JNum(7)>>), JArr(<<JNum(7), ObjA1>>)}
    \cup {JArr(Repeat(ObjA1, k)) : k \in 3..(RowLimit + 1)}

NameCsv == <<"a", ".", "c", "s", "v">>
NameCsvUpper == <<"A", ".", "C", "s", "V">>
NameJson == <<"a", ".", "j", "s", "o", "n">>
NameJsonUpper == <<"a", ".", "J", "S", "O", "N">>
NameTxt == <<"a", ".", "t", "x", "t">>
NameCsvTxt == <<"a", ".", "c", "s", "v", ".", "t", "x", "t">>
NameNoDot == <<"c", "s", "v">>
NameDotFile == <<".", "c", "s", "v">>

Names == {NameCsv, NameCsvUpper, NameJson, NameJsonUpper,
         NameTxt, NameCsvTxt, NameNoDot, NameDotFile}

\* A size well inside every limit.
SmallSize == 64

Sizes == {0, SmallSize, JsonTextLimit, JsonTextLimit + 1, maxSize, maxSize + 1}

File(name, size, textLen, lines, jsonValid, json) ==
    [name |-> name, size |-> size, textLen |-> textLen,
     lines |-> lines, jsonValid |-> jsonValid, json |-> json]

\* No req.file (the request carried no file field).
NoFile == File(<<>>, 0, 0, <<>>, FALSE, JNull)

\* Every name with every size; raw.length never exceeds the byte size, and an
\* empty file has no line and is no JSON text.
SizedFiles ==
    {File(nm, 0, 0, <<>>, FALSE, JNull) : nm \in Names}
    \cup UNION {{File(nm, sz, tl, ScenarioCsv, TRUE, JArr(<<ObjA1, ObjA2>>)) :
                    nm \in Names, tl \in {t \in Sizes \ {0} : t <= sz}} :
                 sz \in Sizes \ {0}}

CsvFiles == {File(NameCsv, SmallSize, SmallSize, c, FALSE, JNull) : c \in CsvContents}

JsonFiles ==
    {File(NameJson, SmallSize, SmallSize, <<Lh>>, TRUE, v) : v \in JsonValues}
    \cup {File(NameJson, SmallSize, SmallSize, <<Lh>>, FALSE, JNull)}

Files == SizedFiles \cup CsvFiles \cup JsonFiles

(***************************************************************************)
(* State.                                                                  *)
(***************************************************************************)
VARIABLES
    reqNo,        \* number of upload requests received so far
    pc,           \* where the current request stands
    hasFile,      \* req.file is present
    file,         \* req.file and the uploaded bytes
    filename,     \* req.file.filename, the identifier multer stored the file under
    pos,          \* lines the csv-parser stream has delivered
    columnsSet,   \* parseCSV: columnsSet (insertion-ordered)
    rowCount,     \* parseCSV: rowCount
    previewRows,  \* parseCSV: previewRows
    allRows,      \* parseCSV: allRows
    hasError,     \* parseCSV: hasError
    metadata,     \* metadata { columns, rows, preview }
    parsedData,   \* parsedData
    rejection,    \* message of the error the parse promise was rejected with
    saves,        \* INSERTs issued by the current request
    dbOk,         \* the INSERT of the current request succeeded
    res,          \* the response sent, NoRes before
    registry,     \* rows of the datasets table
    created,      \* their identifiers in the order of created_at
    disk,         \* identifiers of the files in the uploads directory
    recording,    \* the history below is being recorded
    log           \* history: what callers were answered, per cause and outcome

\* The visualizer (client): one axis of the scene.
VARIABLES
    view,         \* where the visualizer stands: "unmounted", "data", "scaled", "placed"
    values,       \* the numeric values of the axis column (xValues, yValues or zValues)
    targetRange,  \* dynamicAxisSize, the half-length of the axis
    scale,        \* the scale of the axis (scales.xScale, yScale or zScale)
    point,        \* the coordinate the scale was last applied to
    position      \* the render coordinate it was given

\* The service when it handles requests on several connections at once.
VARIABLES
    calls,        \* per connection: the request in progress with the locals of its handler
    deletedOk     \* history: identifiers a DELETE was answered with success for

\* The instanced points of the scene (client, HighPerformanceInstancedPoints).
VARIABLES
    hoveredIndex,     \* state hoveredIndex, Null when no instance is hovered
    lastRaycastTime,  \* state lastRaycastTime
    instanceScale,    \* per instance: the scale in its matrix, in percent of item.scale
    clock             \* Date.now()

\* The upload page (client, UploadPage).
VARIABLES
    localFile,      \* state file: the file picked for upload, NoPick when none
    headers,        \* state headers
    rawData,        \* state rawData
    uploading,      \* state uploading
    selectedFile,   \* state selectedFile
    mapping,        \* states xCol, yCol, zCol, colorCol, sizeCol
    uploadedFiles,  \* state uploadedFiles: the names listed in the sidebar
    pageError,      \* state error
    inflight,       \* the requests of the page that await their response
    sent,           \* number of requests sent and options picked so far
    failed          \* history: a request of the page was answered with an error

vars == <<reqNo, pc, hasFile, file, filename, pos, columnsSet, rowCount,
          previewRows, allRows, hasError, metadata, parsedData, rejection,
          saves, dbOk, res, registry, created, disk, recording, log,
          view, values, targetRange, scale, point, position,
          calls, deletedOk,
          hoveredIndex, lastRaycastTime, instanceScale, clock,
          localFile, headers, rawData, uploading, selectedFile, mapping,
          uploadedFiles, pageError, inflight, sent, failed>>

pointsVars == <<hoveredIndex, lastRaycastTime, instanceScale, clock>>

pageVars == <<localFile, headers, rawData, uploading, selectedFile, mapping,
             uploadedFiles, pageError, inflight, sent, failed>>

scaleVars == <<view, values, targetRange, scale, point, position>>

parserVars == <<pos, columnsSet, rowCount, previewRows, allRows, hasError>>

serverVars == <<calls, deletedOk>>

\* The locals of the request of the service that handles one request at a time.
requestVars == <<pc, hasFile, file, filename, pos, columnsSet, rowCount,
                 previewRows, allRows, hasError, metadata, parsedData, rejection,
                 saves, dbOk, res, recording, log>>

uploadVars == <<reqNo, registry, created, disk, requestVars>>

\* What the upload service leaves alone.
exceptUpload == <<scaleVars, pointsVars, pageVars>>

\* What a request handled on its own leaves alone.
exceptRequest == <<exceptUpload, serverVars>>

\* What the visualizer leaves alone.
exceptScale == <<uploadVars, serverVars, pointsVars, pageVars>>

\* What the instanced points leave alone.
exceptPoints == <<uploadVars, serverVars, scaleVars, pageVars>>

\* What the upload page leaves alone.
exceptPage == <<uploadVars, serverVars, scaleVars, pointsVars>>

InitState ==
    /\ reqNo = 0
    /\ pc = "idle"
    /\ hasFile = FALSE
    /\ file = NoFile
    /\ filename = 0
    /\ pos = 0
    /\ columnsSet = <<>>
    /\ rowCount = 0
    /\ previewRows = <<>>
    /\ allRows = <<>>
    /\ hasError = FALSE
    /\ metadata = EmptyMetadata
    /\ parsedData = <<>>
    /\ rejection = ""
    /\ saves = 0
    /\ dbOk = FALSE
    /\ res = NoRes
    /\ registry = {}
    /\ created = <<>>
    /\ disk = {}
    /\ log = {}

\* No visualizer is mounted: the scales are the defaults of
\* Visualizer3D.tsx:316-327 (no data).
Unmounted ==
    /\ view = "unmounted"
    /\ values = <<>>
    /\ targetRange = FromInt(5)
    /\ scale = scaleLinear(<<F0, F1>>, <<FromInt(-5), FromInt(5)>>)
    /\ point = F0
    /\ position = F0

\* The connections requests arrive on.
Conns == {"c1", "c2"}

\* A connection without a request.
Idle == [kind |-> "none", pc |-> "idle"]

\* No request is being handled and none was answered.
NoCalls ==
    /\ calls = [c \in Conns |-> Idle]
    /\ deletedOk = {}

\* Visualizer3D.tsx:38  useState<number | null>(null): no instance is hovered.
Null == -1

\* Visualizer3D.tsx:38-39  the scene draws no points.
NoPoints ==
    /\ hoveredIndex = Null
    /\ lastRaycastTime = 0
    /\ instanceScale = <<>>
    /\ clock = 0

\* UploadPage.tsx:32  useState<File | null>(null): no file is picked.
NoPick == ""

\* UploadPage.tsx:36-40  the five column states, all ''.
NoMapping == [xCol |-> "", yCol |-> "", zCol |-> "", colorCol |-> "", sizeCol |-> ""]

\* UploadPage.tsx:32-46  the state of the page when it is first rendered.
FirstRender ==
    /\ localFile = NoPick
    /\ headers = <<>>
    /\ rawData = <<>>
    /\ uploading = FALSE
    /\ selectedFile = ""
    /\ mapping = NoMapping
    /\ pageError = ""
    /\ inflight = {}
    /\ sent = 0
    /\ failed = FALSE

\* No upload page is shown.
NoPage == FirstRender /\ uploadedFiles = {}

\* The service after start-up, answers not recorded.
Init == InitState /\ recording = FALSE /\ Unmounted /\ NoCalls /\ NoPoints /\ NoPage

\* The service after start-up with an observer recording the answers.
InitRecording == InitState /\ recording = TRUE /\ Unmounted /\ NoCalls /\ NoPoints /\ NoPage

\* upload.js:277  path.extname(originalname).toLowerCase()
ext(f) == toLowerCase(extname(f.name))

\* upload.js:280  ['.csv', '.json'].includes(ext)
supported(e) == e \in {ExtCsv, ExtJson}

\* Mutant: the size test written with >=.
validateUpload_sizeInclusive(present, f) ==
    IF ~present THEN "noFile"
    ELSE IF ~supported(ext(f)) THEN "unsupported"
    ELSE IF f.size >= maxSize THEN "tooLarge"
    ELSE "ok"

\* Mutant: the size check placed before the extension check.
validateUpload_sizeFirst(present, f) ==
    IF ~present THEN "noFile"
    ELSE IF f.size > maxSize THEN "tooLarge"
    ELSE IF ~supported(ext(f)) THEN "unsupported"
    ELSE "ok"

\* upload.js:269-309  the checks before processing, in the handler's order.
validateUpload(present, f) ==
    IF ~present THEN "noFile"
    ELSE IF ~supported(ext(f)) THEN "unsupported"
    ELSE IF f.size > maxSize THEN "tooLarge"
    ELSE "ok"

\* Mutant: the cleanup left out.
cleanup_keep(d, id, unlinkOk) == d

\* upload.js:282-288, 298-304, 488-495  if (fs.existsSync(p)) fs.unlinkSync(p),
\* inside try/catch: the file is gone unless unlinkSync threw.
cleanup(d, id, unlinkOk) == IF unlinkOk THEN d \ {id} ELSE d

\* upload.js:480-502  the catch block of the handler; d is the uploads directory
\* as the request found it, id the identifier of its file.
Catch(d, id, msg, unlinkOk) ==
    /\ disk' = cleanup(d, id, unlinkOk)
    /\ res' = ErrorRes(500, ErrProcessing, msg)
    /\ pc' = "done"

\* Mutant: the INSERT issued before the parsed data is validated.
ValidateThenSave_saveFirst(d, id, data, md, n, unlinkOk) ==
    IF validateParsed(data, md) # ""
    THEN /\ Catch(d, id, validateParsed(data, md), unlinkOk)
         /\ saves' = n + 1
    ELSE /\ saves' = n + 1
         /\ pc' = "saving"
         /\ disk' = d
         /\ res' = NoRes

\* upload.js:442-457  validation of the parsed data, then the INSERT is issued.
ValidateThenSave(d, id, data, md, n, unlinkOk) ==
    IF validateParsed(data, md) # ""
    THEN /\ Catch(d, id, validateParsed(data, md), unlinkOk)
         /\ saves' = n
    ELSE /\ saves' = n + 1
         /\ pc' = "saving"
         /\ disk' = d
         /\ res' = NoRes

\* A request arrives: multer (upload.single('file')) has stored the file f under
\* a fresh identifier when the request carries one; the locals of the handler
\* are fresh.
Receive(present, f) ==
    /\ pc = "idle"
    /\ reqNo < MaxRequests
    /\ reqNo' = reqNo + 1
    /\ filename' = reqNo + 1
    /\ hasFile' = present
    /\ file' = IF present THEN f ELSE NoFile
    /\ pos' = 0
    /\ columnsSet' = <<>>
    /\ rowCount' = 0
    /\ previewRows' = <<>>
    /\ allRows' = <<>>
    /\ hasError' = FALSE
    /\ rejection' = ""
    /\ dbOk' = FALSE
    /\ UNCHANGED <<registry, created, recording, log, exceptRequest>>

\* upload.js:269-274  no req.file.
UploadNoFile ==
    /\ Receive(FALSE, NoFile)
    /\ validateUpload(FALSE, NoFile) = "noFile"
    /\ res' = ErrorRes(400, ErrNoFile, MsgSelectFile)
    /\ pc' = "done"
    /\ metadata' = EmptyMetadata
    /\ parsedData' = <<>>
    /\ saves' = 0
    /\ UNCHANGED disk

\* upload.js:279-293  extension validation.
UploadUnsupported ==
    \E f \in Files, unlinkOk \in BOOLEAN :
        /\ Receive(TRUE, f)
        /\ validateUpload(TRUE, f) = "unsupported"
        /\ disk' = cleanup(disk \cup {reqNo + 1}, reqNo + 1, unlinkOk)
        /\ res' = ErrorRes(400, ErrUnsupported, MsgOnlyCsvJson)
        /\ pc' = "done"
        /\ metadata' = EmptyMetadata
        /\ parsedData' = <<>>
        /\ saves' = 0

\* upload.js:295-309  size validation.
UploadTooLarge ==
    \E f \in Files, unlinkOk \in BOOLEAN :
        /\ Receive(TRUE, f)
        /\ validateUpload(TRUE, f) = "tooLarge"
        /\ disk' = cleanup(disk \cup {reqNo + 1}, reqNo + 1, unlinkOk)
        /\ res' = ErrorRes(400, ErrTooLarge, MsgSizeLimit)
        /\ pc' = "done"
        /\ metadata' = EmptyMetadata
        /\ parsedData' = <<>>
        /\ saves' = 0

\* upload.js:311-345, 390  a valid .csv upload: parseCSV opens the stream and the
\* handler awaits the promise.  (The file multer just stored exists, so the
\* existsSync test of line 336 passes.)
UploadCsv ==
    \E f \in Files :
        /\ Receive(TRUE, f)
        /\ validateUpload(TRUE, f) = "ok"
        /\ ext(f) = ExtCsv
        /\ disk' = disk \cup {reqNo + 1}
        /\ metadata' = EmptyMetadata
        /\ parsedData' = <<>>
        /\ saves' = 0
        /\ res' = NoRes
        /\ pc' = "parsing"

\* upload.js:311-325, 392-457  a valid .json upload: the JSON branch is
\* synchronous, so the request runs up to the catch block or up to the INSERT.
UploadJson ==
    \E f \in Files, unlinkOk \in BOOLEAN :
        /\ Receive(TRUE, f)
        /\ validateUpload(TRUE, f) = "ok"
        /\ ext(f) = ExtJson
        /\ LET d == disk \cup {reqNo + 1}
               r == jsonBranch(f, TRUE)
           IN /\ metadata' = r.metadata
              /\ parsedData' = r.parsedData
              /\ IF r.err # ""
                 THEN /\ Catch(d, reqNo + 1, r.err, unlinkOk)
                      /\ saves' = 0
                 ELSE ValidateThenSave(d, reqNo + 1, r.parsedData, r.metadata, 0, unlinkOk)

\* upload.js:346-373  the 'data' handler of parseCSV, for the next row of the
\* stream.  After stream.destroy() the rows already parsed from the current
\* chunk may or may not still be delivered, depending on the stream
\* implementation: both are allowed (pc = "rejected" with hasError).
CsvData ==
    /\ \/ pc = "parsing"
       \/ pc = "rejected" /\ hasError
    /\ pos < Len(file.lines)
    /\ LET row == csvParserRow(file.lines[pos + 1])
           cleanRow == cleanRowOf(row, <<>>)
       IN /\ pos' = pos + 1
          /\ rowCount' = rowCount + 1
          /\ columnsSet' = columnsAfter(columnsSet, row)
          /\ allRows' = Append(allRows, cleanRow)
          /\ previewRows' = previewAfter(previewRows, cleanRow)
          /\ IF rowLimitExceeded(rowCount + 1)
             THEN /\ hasError' = TRUE
                  /\ rejection' = IF pc = "parsing" THEN MsgRowLimit ELSE rejection
                  /\ pc' = "rejected"
             ELSE UNCHANGED <<hasError, rejection, pc>>
    /\ UNCHANGED <<reqNo, hasFile, file, filename, metadata, parsedData,
                   saves, dbOk, res, registry, created, disk, recording, log, exceptRequest>>

\* upload.js:374-383  the 'end' handler of parseCSV.
CsvEnd ==
    /\ pc = "parsing"
    /\ pos = Len(file.lines)
    /\ IF ~hasError
       THEN /\ metadata' = [columns |-> columnsSet, rows |-> rowCount,
                            preview |-> previewRows]
            /\ parsedData' = allRows
            /\ pc' = "resolved"
       ELSE UNCHANGED <<metadata, parsedData, pc>>
    /\ UNCHANGED <<reqNo, hasFile, file, filename, parserVars, rejection,
                   saves, dbOk, res, registry, created, disk, recording, log, exceptRequest>>

\* upload.js:384-387  the 'error' handler of parseCSV: the read stream or the
\* parser failed.
CsvError ==
    /\ pc = "parsing"
    /\ rejection' = MsgCsvFail
    /\ pc' = "rejected"
    /\ UNCHANGED <<reqNo, hasFile, file, filename, parserVars, metadata,
                   parsedData, saves, dbOk, res, registry, created, disk, recording, log, exceptRequest>>

\* upload.js:390, 480-502  await parseCSV() throws: the catch block.
UploadCatch ==
    \E unlinkOk \in BOOLEAN :
        /\ pc = "rejected"
        /\ Catch(disk, filename, rejection, unlinkOk)
        /\ UNCHANGED <<reqNo, hasFile, file, filename, parserVars, metadata,
                       parsedData, rejection, saves, dbOk, registry, created, recording, log, exceptRequest>>

\* upload.js:390, 442-457  await parseCSV() returns: validation and INSERT.
UploadAfterParse ==
    \E unlinkOk \in BOOLEAN :
        /\ pc = "resolved"
        /\ ValidateThenSave(disk, filename, parsedData, metadata, saves, unlinkOk)
        /\ UNCHANGED <<reqNo, hasFile, file, filename, parserVars, metadata,
                       parsedData, rejection, dbOk, registry, created, recording, log, exceptRequest>>

\* The row the INSERT of upload.js:453-457 adds to the datasets table (the
\* columns the other routes look rows up by).
DatasetRow(id, f) == [filename |-> id, originalname |-> f.name]

\* Mutant: dbError rethrown to the catch block of the handler.
afterSave_dbErrorFatal(ok, md, data, f) ==
    IF ok THEN SuccessRes(md, data, f)
    ELSE ErrorRes(500, ErrProcessing, "Database save error")

\* upload.js:452-478  the response after the INSERT returned (ok) or threw:
\* dbError is caught and only logged, the success response is sent either way.
afterSave(ok, md, data, f) == SuccessRes(md, data, f)

\* upload.js:452-478  the INSERT returns or throws, then the response is sent.
SaveDone ==
    \E ok \in BOOLEAN :
        /\ pc = "saving"
        /\ dbOk' = ok
        /\ registry' = IF ok THEN registry \cup {DatasetRow(filename, file)}
                       ELSE registry
        /\ created' = IF ok THEN Append(created, filename) ELSE created
        /\ res' = afterSave(ok, metadata, parsedData, file)
        /\ pc' = "done"
        /\ UNCHANGED <<reqNo, hasFile, file, filename, parserVars, metadata,
                       parsedData, rejection, saves, disk, recording, log, exceptRequest>>

(***************************************************************************)
(* History: what the caller of a finished request was told, filed under    *)
(* the cause of its failure and under its outcome.                         *)
(***************************************************************************)
\* Rows the upload holds: lines of a .csv, records of a valid .json.
FileRows(f) ==
    IF ext(f) = ExtCsv THEN Len(f.lines)
    ELSE IF f.jsonValid THEN Len(jsonRows(f.json)) ELSE 0

\* The one cause of failure an upload has, "none" when it has none or several.
CauseOf(present, f) ==
    IF ~present THEN "none"
    ELSE IF ~supported(ext(f))
         THEN (IF f.size > 0 /\ f.size <= maxSize THEN "extension" ELSE "none")
    ELSE IF f.size = 0 THEN "empty"
    ELSE IF f.size > maxSize THEN "bytes"
    ELSE IF f.textLen <= JsonTextLimit /\ FileRows(f) > RowLimit THEN "rows"
    ELSE "none"

\* How the request ended: parsed and saved, parsed but not saved, failed in
\* parsing, or otherwise.
OutcomeOf ==
    IF saves > 0 /\ dbOk THEN "saved"
    ELSE IF saves > 0 THEN "unsaved"
    ELSE IF res.details \in {MsgInvalidJson, MsgCsvFail} THEN "parseFailure"
    ELSE "other"

\* What a caller can tell an answer by, apart from the data echoed to it.
Answer(r) == [status |-> r.status, success |-> r.success, error |-> r.error,
              message |-> r.message]

LogEntry ==
    [cause |-> CauseOf(hasFile, file), outcome |-> OutcomeOf, answer |-> Answer(res)]

\* The response reaches the caller and the request is over.
Deliver ==
    /\ pc = "done"
    /\ log' = IF recording /\ (LogEntry.cause # "none" \/ LogEntry.outcome # "other")
              THEN log \cup {LogEntry} ELSE log
    /\ pc' = "idle"
    /\ hasFile' = FALSE
    /\ file' = NoFile
    /\ filename' = 0
    /\ pos' = 0
    /\ columnsSet' = <<>>
    /\ rowCount' = 0
    /\ previewRows' = <<>>
    /\ allRows' = <<>>
    /\ hasError' = FALSE
    /\ metadata' = EmptyMetadata
    /\ parsedData' = <<>>
    /\ rejection' = ""
    /\ saves' = 0
    /\ dbOk' = FALSE
    /\ res' = NoRes
    /\ UNCHANGED <<reqNo, registry, created, disk, recording, exceptRequest>>

Next ==
    \/ UploadNoFile
    \/ UploadUnsupported
    \/ UploadTooLarge
    \/ UploadCsv
    \/ UploadJson
    \/ CsvData
    \/ CsvEnd
    \/ CsvError
    \/ UploadCatch
    \/ UploadAfterParse
    \/ SaveDone
    \/ Deliver

Spec == Init /\ [][Next]_vars

\* The same service, watched by the observer that records the answers.
SpecRecorded == InitRecording /\ [][Next]_vars

(***************************************************************************)
(* The visualizer: the scale of one axis is built from the values of the   *)
(* column mapped to the axis and applied to the coordinates of the points. *)
(***************************************************************************)
\* Largest magnitude of the small sample values.
MaxSample == 3

\* 2^54, an integer beyond the range in which every integer is a number
Huge == [s |-> 0, m |-> NatShl(<<1>>, Precision - 1), e |-> 2]

SampleValues == {FromInt(i) : i \in (-MaxSample)..MaxSample} \cup {Huge}

\* The value lists of an axis: every list of at most two sample values (the
\* scale depends on the least and the greatest value only) and some longer
\* ones.
SampleLists ==
    SeqsUpTo(SampleValues, 2)
    \cup {<<FromInt(1), FromInt(2), FromInt(3)>>,
          <<FromInt(5), FromInt(5), FromInt(5)>>,
          <<FromInt(-2), FromInt(0), FromInt(3)>>}

\* Visualizer3D.tsx:351  dynamicAxisSize lies between 5 and 15
TargetRanges == {FromInt(5), FromInt(10), FromInt(15)}

\* The visualizer is given data: the values of the axis column and the size of
\* the axes; nothing is uploading.
InitScale ==
    /\ InitState
    /\ recording = FALSE
    /\ view = "data"
    /\ values \in SampleLists
    /\ targetRange \in TargetRanges
    /\ scale = scaleLinear(<<F0, F1>>, <<FromInt(-5), FromInt(5)>>)
    /\ point = F0
    /\ position = F0
    /\ NoCalls
    /\ NoPoints
    /\ NoPage

\* Visualizer3D.tsx:359-362  the useMemo builds the scale of the axis.
CreateScale ==
    /\ view = "data"
    /\ scale' = createSignPreservingScale(values, targetRange)
    /\ view' = "scaled"
    /\ UNCHANGED <<values, targetRange, point, position, exceptScale>>

\* Coordinates the scale is applied to: the values of the column, zero, and the
\* ends of the domain.
Coordinates ==
    {values[i] : i \in 1..Len(values)} \cup {F0, scale.domain[1], scale.domain[2]}

\* Visualizer3D.tsx:52-57, 188-190  scales.xScale(point.x)
ApplyScale ==
    /\ view \in {"scaled", "placed"}
    /\ \E v \in Coordinates :
          /\ point' = v
          /\ position' = bimap(scale, v)
    /\ view' = "placed"
    /\ UNCHANGED <<values, targetRange, scale, exceptScale>>

NextScale ==
    \/ CreateScale
    \/ ApplyScale

SpecScale == InitScale /\ [][NextScale]_vars

(***************************************************************************)
(* The service handling several requests at once: every route of the       *)
(* router (POST /, GET /file/:filename, GET /files, DELETE                 *)
(* /file/:filename) runs on a connection of its own and gives way to the   *)
(* others at each await.  A step is the stretch of a handler from one      *)
(* await to the next, together with the query (or stream callback) the     *)
(* stretch ends in; the datasets table and the uploads directory are       *)
(* shared.  The INSERT of an upload may fail, as may the removal and the   *)
(* reading of a file; the SELECT, COUNT and DELETE statements are taken to *)
(* return (a page query with a negative LIMIT excepted, which the database *)
(* rejects).                                                               *)
(***************************************************************************)
\* Number of requests the service receives in one behaviour, the upload it
\* starts after included.
MaxCalls == 3

\* upload.js:330-334  the locals of one call of parseCSV.
NoParser ==
    [pos |-> 0, columnsSet |-> <<>>, rowCount |-> 0, previewRows |-> <<>>,
     allRows |-> <<>>, hasError |-> FALSE]

\* Uploads sent to the busy service: two CSV files with different columns, a
\* CSV of a row more than RowLimit, three JSON files (two records, a record
\* without keys, no JSON), a file with an unsupported extension and one over
\* the size limit.
ServerFiles ==
    {File(NameCsv, SmallSize, SmallSize, c, FALSE, JNull) :
        c \in {<<Lh, L1>>, <<Lr>>, Repeat(L1, RowLimit + 1)}}
    \cup {File(NameJson, SmallSize, SmallSize, <<Lh>>, TRUE, JArr(<<ObjA1, ObjBA>>)),
          File(NameJson, SmallSize, SmallSize, <<Lh>>, TRUE, JArr(<<JObj(<<>>)>>)),
          File(NameJson, SmallSize, SmallSize, <<Lh>>, FALSE, JNull),
          File(NameTxt, SmallSize, SmallSize, <<Lh>>, FALSE, JNull),
          File(NameCsv, maxSize + 1, SmallSize, <<Lh>>, FALSE, JNull)}

\* The identifier multer stored an upload under, as the text of a route
\* parameter.
Name(id) == <<Digits[id + 1]>>

\* The :filename parameters requests carry: identifiers the service may have
\* given out, one of them padded with white space, and a blank one.
FilenameParams ==
    {Name(i) : i \in 1..(MaxCalls - 2)} \cup {<<" ", "1">>, <<" ">>}

\* The rows of the datasets table with  filename = $1.
selectByFilename(reg, name) == {r \in reg : Name(r.filename) = name}

\* Mutant: the DELETE statement removes nothing.
deleteByFilename_keep(reg, name) == reg

\* upload.js:759  DELETE FROM datasets WHERE filename = $1
deleteByFilename(reg, name) == reg \ selectByFilename(reg, name)

RECURSIVE Without(_, _)
\* The sequence s without the elements of the set gone.
Without(s, gone) ==
    IF s = <<>> THEN <<>>
    ELSE IF Head(s) \in gone THEN Without(Tail(s), gone)
    ELSE <<Head(s)>> \o Without(Tail(s), gone)

\* Number.parseInt results: NaN or an integer.
NaN == [nan |-> TRUE, n |-> 0]
Num(v) == [nan |-> FALSE, n |-> v]

IsDigit(ch) == \E i \in 1..10 : Digits[i] = ch
DigitValue(ch) == (CHOOSE i \in 1..10 : Digits[i] = ch) - 1

RECURSIVE LeadingDigits(_, _)
LeadingDigits(s, acc) ==
    IF s = <<>> \/ ~IsDigit(Head(s)) THEN acc
    ELSE LeadingDigits(Tail(s), acc * 10 + DigitValue(Head(s)))

\* parseInt(string): leading white space skipped, an optional sign, then the
\* decimal digits up to the first other character; NaN when there is no digit.
parseInt(s) ==
    LET t == TrimStart(s)
        signed == t # <<>> /\ Head(t) \in {"-", "+"}
        body == IF signed THEN Tail(t) ELSE t
    IN IF body = <<>> \/ ~IsDigit(Head(body)) THEN NaN
       ELSE IF signed /\ Head(t) = "-" THEN Num(0 - LeadingDigits(body, 0))
       ELSE Num(LeadingDigits(body, 0))

\* v || d : NaN and 0 are falsy.
OrElse(v, d) == IF v.nan \/ v.n = 0 THEN d ELSE v.n

Max(a, b) == IF a >= b THEN a ELSE b

\* upload.js:661, 664  the default of the limit parameter
DefaultLimit == 50
\* upload.js:664  at most 100 files per request
MaxLimit == 100

\* upload.js:661, 664  Math.min(parseInt(limit) || 50, 100); an absent parameter
\* takes the default 50 and is parsed to 50, as the empty text is.
limitNumOf(limit) == Min(OrElse(parseInt(limit), DefaultLimit), MaxLimit)

\* upload.js:661, 665  Math.max(parseInt(offset) || 0, 0)
offsetNumOf(offset) == Max(OrElse(parseInt(offset), 0), 0)

\* The values of the limit and offset parameters: absent (or empty),
\* non-numeric, zero, negative, small and very large.
QueryParams ==
    {<<>>, <<"a", "b", "c">>, <<"0">>, <<"-", "5">>, <<"1">>,
     <<"9", "9", "9", "9", "9", "9", "9", "9", "9">>}

\* The queries of GET /files: both parameters of the same kind, and a first
\* page of one file.
Queries ==
    {[limit |-> q, offset |-> q] : q \in QueryParams}
    \cup {[limit |-> <<"1">>, offset |-> <<>>]}

RECURSIVE Reverse(_)
Reverse(s) == IF s = <<>> THEN <<>> ELSE Append(Reverse(Tail(s)), Head(s))

\* upload.js:667-673  ... ORDER BY created_at DESC LIMIT $1 OFFSET $2 : the
\* identifiers of the rows of the page, order being the table in the order of
\* its INSERTs.
listDatasets(order, limit, offset) ==
    SubSeq(Reverse(order), offset + 1, Min(offset + limit, Len(order)))

\* The response of GET /file/:filename and DELETE /file/:filename, as far as
\* the status and the error go.
Reply(s, ok, e) == [status |-> s, success |-> ok, error |-> e]

\* The response of GET /files.
ListReply(s, ok, e, files, total, limitNum, offsetNum) ==
    [status |-> s, success |-> ok, error |-> e, files |-> files,
     pagination |-> [total |-> total, limit |-> limitNum, offset |-> offsetNum,
                     hasNext |-> offsetNum + limitNum < total,
                     hasPrevious |-> offsetNum > 0]]

Put(c, call) == calls' = [calls EXCEPT ![c] = call]

\* A request is accepted on connection c: the first connection that is free.
Accept(c) ==
    /\ calls[c] = Idle
    /\ c = "c2" => calls["c1"] # Idle
    /\ reqNo < MaxCalls
    /\ reqNo' = reqNo + 1

\* Mutant: one parser state for all the uploads in progress.
parserOf_shared(cs, c) ==
    cs[CHOOSE d \in DOMAIN cs : cs[d].kind = "upload"].parser

\* upload.js:328-334  the parser state the callbacks of a request work on: the
\* locals of its own call of parseCSV.
parserOf(cs, c) == cs[c].parser

\* upload.js:480-502  the catch block: the call after it.
Caught(call, msg, unlinkOk) ==
    [call EXCEPT !.pc = "done",
                 !.cleanupError = ~unlinkOk,
                 !.res = ErrorRes(500, ErrProcessing, msg)]

\* upload.js:442-457  the parsed data is validated and the INSERT issued, or the
\* validation throws to the catch block.
Validated(call, unlinkOk) ==
    IF validateParsed(call.parsedData, call.metadata) # ""
    THEN Caught(call, validateParsed(call.parsedData, call.metadata), unlinkOk)
    ELSE [call EXCEPT !.pc = "saving"]

\* The uploads directory after the call went through the catch block or not.
DiskAfter(d, before, after, unlinkOk) ==
    IF before.pc # "done" /\ after.pc = "done" /\ ~after.res.success
    THEN cleanup(d, after.filename, unlinkOk)
    ELSE d

\* upload.js:267-457  POST / : multer has stored the file; the handler runs to
\* its first await (parseCSV or the INSERT) or to a response.
Post(c) ==
    /\ Accept(c)
    /\ \E f \in ServerFiles \cup {NoFile}, unlinkOk \in BOOLEAN :
          LET id == reqNo + 1
              present == f # NoFile
              v == validateUpload(present, f)
              stored == IF present THEN disk \cup {id} ELSE disk
              fresh == [kind |-> "upload", pc |-> "parsing", file |-> f,
                        filename |-> id, parser |-> NoParser,
                        metadata |-> EmptyMetadata, parsedData |-> <<>>,
                        rejection |-> "", cleanupError |-> FALSE, res |-> NoRes]
              j == jsonBranch(f, TRUE)
              parsed == [fresh EXCEPT !.metadata = j.metadata,
                                      !.parsedData = j.parsedData]
          IN CASE v = "noFile" ->
                    /\ Put(c, [fresh EXCEPT !.pc = "done",
                                  !.res = ErrorRes(400, ErrNoFile, MsgSelectFile)])
                    /\ disk' = disk
               [] v = "unsupported" ->
                    /\ Put(c, [fresh EXCEPT !.pc = "done", !.cleanupError = ~unlinkOk,
                                  !.res = ErrorRes(400, ErrUnsupported, MsgOnlyCsvJson)])
                    /\ disk' = cleanup(stored, id, unlinkOk)
               [] v = "tooLarge" ->
                    /\ Put(c, [fresh EXCEPT !.pc = "done", !.cleanupError = ~unlinkOk,
                                  !.res = ErrorRes(400, ErrTooLarge, MsgSizeLimit)])
                    /\ disk' = cleanup(stored, id, unlinkOk)
               [] v = "ok" /\ ext(f) = ExtCsv ->
                    /\ Put(c, fresh)
                    /\ disk' = stored
               [] v = "ok" /\ ext(f) = ExtJson ->
                    LET after == IF j.err # "" THEN Caught(parsed, j.err, unlinkOk)
                                 ELSE Validated(parsed, unlinkOk)
                    IN /\ Put(c, after)
                       /\ disk' = DiskAfter(stored, parsed, after, unlinkOk)
    /\ UNCHANGED <<registry, created, deletedOk, requestVars, exceptUpload>>

\* upload.js:346-373  the 'data' handler of the parseCSV call of connection c.
OnData(c) ==
    /\ calls[c].kind = "upload"
    /\ \/ calls[c].pc = "parsing"
       \/ calls[c].pc = "rejected" /\ calls[c].parser.hasError
    /\ calls[c].parser.pos < Len(calls[c].file.lines)
    /\ LET st == parserOf(calls, c)
           row == csvParserRow(calls[c].file.lines[calls[c].parser.pos + 1])
           cleanRow == cleanRowOf(row, <<>>)
           over == rowLimitExceeded(st.rowCount + 1)
           next == [pos |-> calls[c].parser.pos + 1,
                    columnsSet |-> columnsAfter(st.columnsSet, row),
                    rowCount |-> st.rowCount + 1,
                    previewRows |-> previewAfter(st.previewRows, cleanRow),
                    allRows |-> Append(st.allRows, cleanRow),
                    hasError |-> st.hasError \/ over]
       IN Put(c, [calls[c] EXCEPT
                     !.parser = next,
                     !.rejection = IF over /\ calls[c].pc = "parsing"
                                   THEN MsgRowLimit ELSE @,
                     !.pc = IF over THEN "rejected" ELSE @])
    /\ UNCHANGED <<reqNo, registry, created, disk, deletedOk, requestVars, exceptUpload>>

\* upload.js:374-383  the 'end' handler.
OnEnd(c) ==
    /\ calls[c].kind = "upload"
    /\ calls[c].pc = "parsing"
    /\ calls[c].parser.pos = Len(calls[c].file.lines)
    /\ LET st == parserOf(calls, c)
       IN IF ~st.hasError
          THEN Put(c, [calls[c] EXCEPT
                          !.metadata = [columns |-> st.columnsSet, rows |-> st.rowCount,
                                        preview |-> st.previewRows],
                          !.parsedData = st.allRows,
                          !.pc = "resolved"])
          ELSE UNCHANGED calls
    /\ UNCHANGED <<reqNo, registry, created, disk, deletedOk, requestVars, exceptUpload>>

\* upload.js:384-387  the 'error' handler.
OnError(c) ==
    /\ calls[c].kind = "upload"
    /\ calls[c].pc = "parsing"
    /\ Put(c, [calls[c] EXCEPT !.rejection = MsgCsvFail, !.pc = "rejected"])
    /\ UNCHANGED <<reqNo, registry, created, disk, deletedOk, requestVars, exceptUpload>>

\* upload.js:390, 442-457, 480-502  the handler resumes after parseCSV: the
\* catch block when the promise was rejected, validation and INSERT otherwise.
PostResume(c) ==
    /\ calls[c].kind = "upload"
    /\ calls[c].pc \in {"rejected", "resolved"}
    /\ \E unlinkOk \in BOOLEAN :
          LET after == IF calls[c].pc = "rejected"
                       THEN Caught(calls[c], calls[c].rejection, unlinkOk)
                       ELSE Validated(calls[c], unlinkOk)
          IN /\ Put(c, after)
             /\ disk' = DiskAfter(disk, calls[c], after, unlinkOk)
    /\ UNCHANGED <<reqNo, registry, created, deletedOk, requestVars, exceptUpload>>

\* upload.js:452-478  the INSERT returns or throws, and the response is sent.
PostSaved(c) ==
    /\ calls[c].kind = "upload"
    /\ calls[c].pc = "saving"
    /\ \E ok \in BOOLEAN :
          /\ registry' = IF ok THEN registry \cup {DatasetRow(calls[c].filename, calls[c].file)}
                         ELSE registry
          /\ created' = IF ok THEN Append(created, calls[c].filename) ELSE created
          /\ Put(c, [calls[c] EXCEPT
                        !.pc = "done",
                        !.res = afterSave(ok, calls[c].metadata, calls[c].parsedData,
                                          calls[c].file)])
    /\ UNCHANGED <<reqNo, disk, deletedOk, requestVars, exceptUpload>>

\* upload.js:506-527  GET /file/:filename up to the result of the SELECT.
GetFile(c) ==
    /\ Accept(c)
    /\ \E name \in FilenameParams :
          LET call == [kind |-> "get", pc |-> "selected", name |-> trim(name),
                       rows |-> {}, after |-> deletedOk, res |-> Reply(0, FALSE, "")]
          IN IF trim(name) = <<>>
             THEN Put(c, [call EXCEPT !.pc = "done",
                             !.res = Reply(400, FALSE, "Invalid filename parameter")])
             ELSE Put(c, [call EXCEPT !.rows = selectByFilename(registry, trim(name))])
    /\ UNCHANGED <<registry, created, disk, deletedOk, requestVars, exceptUpload>>

\* upload.js:522-655  the rest of GET /file/:filename: no row, no file, or the
\* file is read and returned (the read may fail).
GetFileRespond(c) ==
    /\ calls[c].kind = "get"
    /\ calls[c].pc = "selected"
    /\ \E readOk \in BOOLEAN :
          Put(c, [calls[c] EXCEPT
                     !.pc = "done",
                     !.res = IF calls[c].rows = {}
                             THEN Reply(404, FALSE, "File not found in database")
                             ELSE IF \A r \in calls[c].rows : r.filename \notin disk
                             THEN Reply(404, FALSE, "File not found on server")
                             ELSE IF ~readOk
                             THEN Reply(500, FALSE, "Failed to fetch file data")
                             ELSE Reply(200, TRUE, "")])
    /\ UNCHANGED <<reqNo, registry, created, disk, deletedOk, requestVars, exceptUpload>>

\* upload.js:659-673, 718-729  GET /files up to the result of the page query;
\* the database rejects a negative LIMIT, which takes the handler to its catch
\* block.
ListFiles(c) ==
    /\ Accept(c)
    /\ \E q \in Queries :
          LET limitNum == limitNumOf(q.limit)
              offsetNum == offsetNumOf(q.offset)
              call == [kind |-> "list", pc |-> "listed", limitNum |-> limitNum,
                       offsetNum |-> offsetNum, files |-> <<>>, after |-> deletedOk,
                       res |-> ListReply(0, FALSE, "", <<>>, 0, limitNum, offsetNum)]
          IN IF limitNum < 0
             THEN Put(c, [call EXCEPT !.pc = "done",
                             !.res = ListReply(500, FALSE, "Failed to fetch files list",
                                               <<>>, 0, limitNum, offsetNum)])
             ELSE Put(c, [call EXCEPT !.files = listDatasets(created, limitNum, offsetNum)])
    /\ UNCHANGED <<registry, created, disk, deletedOk, requestVars, exceptUpload>>

\* upload.js:675-716  the count query and the response of GET /files.
ListFilesRespond(c) ==
    /\ calls[c].kind = "list"
    /\ calls[c].pc = "listed"
    /\ Put(c, [calls[c] EXCEPT
                  !.pc = "done",
                  !.res = ListReply(200, TRUE, "", calls[c].files, Cardinality(registry),
                                    calls[c].limitNum, calls[c].offsetNum)])
    /\ UNCHANGED <<reqNo, registry, created, disk, deletedOk, requestVars, exceptUpload>>

\* upload.js:733-753  DELETE /file/:filename up to the result of the SELECT.
DeleteFile(c) ==
    /\ Accept(c)
    /\ \E name \in FilenameParams :
          LET call == [kind |-> "delete", pc |-> "selected", name |-> trim(name),
                       rows |-> {}, fsError |-> FALSE, res |-> Reply(0, FALSE, "")]
          IN IF trim(name) = <<>>
             THEN Put(c, [call EXCEPT !.pc = "done",
                             !.res = Reply(400, FALSE, "Invalid filename parameter")])
             ELSE Put(c, [call EXCEPT !.rows = selectByFilename(registry, trim(name))])
    /\ UNCHANGED <<registry, created, disk, deletedOk, requestVars, exceptUpload>>

\* upload.js:749-759  no row: 404; otherwise the DELETE statement runs.
DeleteRow(c) ==
    /\ calls[c].kind = "delete"
    /\ calls[c].pc = "selected"
    /\ IF calls[c].rows = {}
       THEN /\ Put(c, [calls[c] EXCEPT !.pc = "done",
                          !.res = Reply(404, FALSE, "File not found in database")])
            /\ UNCHANGED <<registry, created>>
       ELSE /\ Put(c, [calls[c] EXCEPT !.pc = "unlinking"])
            /\ registry' = deleteByFilename(registry, calls[c].name)
            /\ created' = Without(created, {r.filename : r \in registry \ registry'})
    /\ UNCHANGED <<reqNo, disk, deletedOk, requestVars, exceptUpload>>

\* upload.js:761-776  the physical file is removed if it is there (a failure is
\* caught and logged) and the success response is sent.
DeleteUnlink(c) ==
    /\ calls[c].kind = "delete"
    /\ calls[c].pc = "unlinking"
    /\ \E unlinkOk \in BOOLEAN :
          LET ids == {r.filename : r \in calls[c].rows}
              there == ids \cap disk # {}
          IN /\ disk' = IF unlinkOk THEN disk \ ids ELSE disk
             /\ Put(c, [calls[c] EXCEPT !.pc = "done",
                           !.fsError = there /\ ~unlinkOk,
                           !.res = Reply(200, TRUE, "")])
             /\ deletedOk' = deletedOk \cup ids
    /\ UNCHANGED <<reqNo, registry, created, requestVars, exceptUpload>>

\* The response has reached the caller: the connection is free again.
Finish(c) ==
    /\ calls[c].pc = "done"
    /\ Put(c, Idle)
    /\ UNCHANGED <<reqNo, registry, created, disk, deletedOk, requestVars, exceptUpload>>

NextServer ==
    \E c \in Conns :
        \/ Post(c)
        \/ OnData(c)
        \/ OnEnd(c)
        \/ OnError(c)
        \/ PostResume(c)
        \/ PostSaved(c)
        \/ GetFile(c)
        \/ GetFileRespond(c)
        \/ ListFiles(c)
        \/ ListFilesRespond(c)
        \/ DeleteFile(c)
        \/ DeleteRow(c)
        \/ DeleteUnlink(c)
        \/ Finish(c)

\* The service after a first upload, request number 1, handled on its own:
\* either the upload failed and left nothing behind, or the file was parsed
\* and saved.  No request is in progress.
InitServer ==
    /\ reqNo = 1
    /\ \/ registry = {} /\ created = <<>> /\ disk = {}
       \/ /\ registry = {DatasetRow(1, File(NameCsv, SmallSize, SmallSize, ScenarioCsv,
                                             FALSE, JNull))}
          /\ created = <<1>>
          /\ disk = {1}
    /\ pc = "idle"
    /\ hasFile = FALSE
    /\ file = NoFile
    /\ filename = 0
    /\ pos = 0
    /\ columnsSet = <<>>
    /\ rowCount = 0
    /\ previewRows = <<>>
    /\ allRows = <<>>
    /\ hasError = FALSE
    /\ metadata = EmptyMetadata
    /\ parsedData = <<>>
    /\ rejection = ""
    /\ saves = 0
    /\ dbOk = FALSE
    /\ res = NoRes
    /\ log = {}
    /\ recording = FALSE
    /\ Unmounted
    /\ NoCalls
    /\ NoPoints
    /\ NoPage

\* The service with requests in progress on several connections.
SpecServer == InitServer /\ [][NextServer]_vars

(***************************************************************************)
(* The instanced points of the scene: hover detection and hover animation  *)
(* (Visualizer3D.tsx, HighPerformanceInstancedPoints).                     *)
(***************************************************************************)
\* Number of points drawn (instanceData.length).
NumInstances == 3

\* Instance ids, counted from 0 as by three.js.
Instances == 0..(NumInstances - 1)

\* Visualizer3D.tsx:42  const RAYCAST_THROTTLE = 100; // ms
RAYCAST_THROTTLE == 100

\* Visualizer3D.tsx:76  tempObject.scale.setScalar(item.scale)
BasePercent == 100

\* Visualizer3D.tsx:146  tempObject.scale.setScalar(item.scale * 1.15)
HoverPercent == 115

\* Milliseconds between two readings of the clock, and readings per behaviour.
TickMs == 50
MaxTicks == 6

\* Visualizer3D.tsx:66-97  the useEffect on instanceData: every matrix is
\* written with the scale of its item.
AllBase == [i \in Instances |-> BasePercent]

\* Visualizer3D.tsx:116-129  the value of hoveredIndex after a ray cast that hit
\* instance hit, or nothing (Null).
hoveredAfter(hovered, hit) ==
    IF hit # Null
    THEN IF hit # hovered /\ hit < NumInstances THEN hit ELSE hovered
    ELSE Null

\* Time passes.
Tick ==
    /\ clock + TickMs <= RAYCAST_THROTTLE + MaxTicks * TickMs
    /\ clock' = clock + TickMs
    /\ UNCHANGED <<hoveredIndex, lastRaycastTime, instanceScale, exceptPoints>>

\* Visualizer3D.tsx:66-97  instanceData changed (same number of points): the
\* effect rewrites every matrix; the hover state is kept.
setupInstances ==
    /\ instanceScale # AllBase
    /\ instanceScale' = AllBase
    /\ UNCHANGED <<hoveredIndex, lastRaycastTime, clock, exceptPoints>>

\* Visualizer3D.tsx:100-134  handlePointerMove: throttled, then the ray cast
\* sets hoveredIndex; no matrix is written.
handlePointerMove ==
    /\ clock - lastRaycastTime >= RAYCAST_THROTTLE
    /\ \E hit \in Instances \cup {Null} :
          hoveredIndex' = hoveredAfter(hoveredIndex, hit)
    /\ lastRaycastTime' = clock
    /\ UNCHANGED <<instanceScale, clock, exceptPoints>>

\* Visualizer3D.tsx:137-150  useFrame: the matrix of the hovered instance is
\* written with 1.15 times the scale of its item.
useFrame ==
    /\ hoveredIndex # Null
    /\ hoveredIndex < NumInstances
    /\ instanceScale' = [instanceScale EXCEPT ![hoveredIndex] = HoverPercent]
    /\ UNCHANGED <<hoveredIndex, lastRaycastTime, clock, exceptPoints>>

\* Visualizer3D.tsx:157-172  onPointerLeave: the matrix of the hovered instance
\* is written with the scale of its item and hoveredIndex set to null.
onPointerLeave ==
    /\ instanceScale' = IF hoveredIndex # Null
                        THEN [instanceScale EXCEPT ![hoveredIndex] = BasePercent]
                        ELSE instanceScale
    /\ hoveredIndex' = Null
    /\ UNCHANGED <<lastRaycastTime, clock, exceptPoints>>

\* Visualizer3D.tsx:38-39, 66-97  the points are mounted and set up; Date.now()
\* is far above the initial lastRaycastTime.
InitPoints ==
    /\ InitState
    /\ recording = FALSE
    /\ Unmounted
    /\ NoCalls
    /\ NoPage
    /\ hoveredIndex = Null
    /\ lastRaycastTime = 0
    /\ instanceScale = AllBase
    /\ clock = RAYCAST_THROTTLE

NextPoints == Tick \/ setupInstances \/ handlePointerMove \/ useFrame \/ onPointerLeave

\* The instanced points under pointer events and animation frames.
SpecPoints == InitPoints /\ [][NextPoints]_vars

(***************************************************************************)
(* The upload page: uploads, selection of a listed file and the column     *)
(* mapping (UploadPage.tsx).                                               *)
(***************************************************************************)
\* Requests sent and options picked per behaviour.
MaxSent == 4

\* A value of a row as the heuristics of handleFileSelect see it: its typeof
\* and whether parseFloat of it is a number.
NumberValue == [type |-> "number", numeric |-> TRUE]
TextValue == [type |-> "string", numeric |-> FALSE]
DigitsValue == [type |-> "string", numeric |-> TRUE]

\* The datasets the service holds when the page is mounted, by identifier, and
\* the local files the user can pick, by name: headers and rows as the service
\* answers them.
Listed == {"a", "b"}
LocalFiles == {"c"}

ColumnsOf(name) ==
    CASE name = "a" -> <<"x", "y", "z", "tag">>
      [] name = "b" -> <<"u", "v">>
      [] OTHER -> <<"y", "w", "x", "n", "m">>

RowsOf(name) ==
    CASE name = "a" -> <<[x |-> NumberValue, y |-> NumberValue, z |-> NumberValue,
                          tag |-> TextValue]>>
      [] name = "b" -> <<[u |-> DigitsValue, v |-> DigitsValue]>>
      [] OTHER -> <<[y |-> NumberValue, w |-> NumberValue, x |-> NumberValue,
                     n |-> DigitsValue, m |-> NumberValue]>>

\* UploadPage.tsx:139-141  cols[i] || ''
ColumnAt(cols, i) == IF i <= Len(cols) THEN cols[i] ELSE ""

\* UploadPage.tsx:144-165  the first of the columns at the indices hits, '' when
\* there is none (for ... break).
FirstOf(cols, hits) ==
    IF hits = {} THEN "" ELSE cols[CHOOSE i \in hits : \A j \in hits : i <= j]

IsText(v) == v.type = "string"
IsNumeric(v) == v.type = "number" \/ v.numeric

\* UploadPage.tsx:138-171  the columns handleFileSelect chooses.
defaultMapping(cols, rows) ==
    LET defaultX == ColumnAt(cols, 1)
        defaultY == ColumnAt(cols, 2)
        defaultZ == ColumnAt(cols, 3)
        others == {i \in 1..Len(cols) : cols[i] \notin {defaultX, defaultY, defaultZ}}
    IN [xCol |-> defaultX, yCol |-> defaultY, zCol |-> defaultZ,
        colorCol |-> FirstOf(cols, {i \in others : IsText(rows[1][cols[i]])}),
        sizeCol |-> FirstOf(cols, {i \in others : IsNumeric(rows[1][cols[i]])})]

\* The page sends request r.
Send(r) ==
    /\ sent < MaxSent
    /\ sent' = sent + 1
    /\ inflight' = inflight \cup {[r EXCEPT !.n = sent + 1]}

\* UploadPage.tsx:70-75  handleFileChange
handleFileChange ==
    /\ \E f \in LocalFiles : localFile' = f
    /\ pageError' = ""
    /\ UNCHANGED <<headers, rawData, uploading, selectedFile, mapping, uploadedFiles,
                   inflight, sent, failed, exceptPage>>

\* UploadPage.tsx:77-90, 365  handleUpload up to the POST; the button is
\* disabled while uploading or without a file.
handleUpload ==
    /\ ~uploading
    /\ localFile # NoPick
    /\ Send([kind |-> "upload", name |-> localFile, stage |-> "post", n |-> 0])
    /\ uploading' = TRUE
    /\ pageError' = ""
    /\ UNCHANGED <<localFile, headers, rawData, selectedFile, mapping, uploadedFiles,
                   failed, exceptPage>>

\* UploadPage.tsx:91-102  the POST is answered: headers, rawData and
\* selectedFile are set and the list refreshed, or the error is shown.
UploadAnswered ==
    \E r \in inflight, ok \in BOOLEAN :
        /\ r.kind = "upload"
        /\ r.stage = "post"
        /\ IF ok
           THEN /\ headers' = ColumnsOf(r.name)
                /\ rawData' = RowsOf(r.name)
                /\ selectedFile' = ""
                /\ pageError' = ""
                /\ inflight' = (inflight \ {r}) \cup {[r EXCEPT !.stage = "refresh"]}
                /\ UNCHANGED uploading
           ELSE /\ pageError' = "Upload failed"
                /\ uploading' = FALSE
                /\ inflight' = inflight \ {r}
                /\ UNCHANGED <<headers, rawData, selectedFile>>
        /\ failed' = (failed \/ ~ok)
        /\ UNCHANGED <<localFile, mapping, uploadedFiles, sent, exceptPage>>

\* UploadPage.tsx:52-68, 94, 102  fetchUploadedFiles is answered and handleUpload
\* ends.
ListRefreshed ==
    \E r \in inflight, ok \in BOOLEAN :
        /\ r.kind = "upload"
        /\ r.stage = "refresh"
        /\ uploadedFiles' = IF ok THEN uploadedFiles \cup {r.name} ELSE uploadedFiles
        /\ pageError' = IF ok THEN pageError ELSE "Failed to fetch files"
        /\ uploading' = FALSE
        /\ inflight' = inflight \ {r}
        /\ failed' = (failed \/ ~ok)
        /\ UNCHANGED <<localFile, headers, rawData, selectedFile, mapping, sent, exceptPage>>

\* UploadPage.tsx:123-132, 297  handleFileSelect up to the GET, for a file of the
\* list.
handleFileSelect ==
    \E name \in uploadedFiles :
        /\ Send([kind |-> "select", name |-> name, stage |-> "get", n |-> 0])
        /\ selectedFile' = name
        /\ pageError' = ""
        /\ UNCHANGED <<localFile, headers, rawData, uploading, mapping, uploadedFiles,
                       failed, exceptPage>>

\* UploadPage.tsx:133-180  the GET is answered: headers, rawData and the five
\* columns are set, or the error is shown.
SelectAnswered ==
    \E r \in inflight, ok \in BOOLEAN :
        /\ r.kind = "select"
        /\ IF ok
           THEN /\ headers' = ColumnsOf(r.name)
                /\ rawData' = RowsOf(r.name)
                /\ mapping' = defaultMapping(ColumnsOf(r.name), RowsOf(r.name))
                /\ UNCHANGED pageError
           ELSE /\ pageError' = "Failed to fetch file data"
                /\ UNCHANGED <<headers, rawData, mapping>>
        /\ inflight' = inflight \ {r}
        /\ failed' = (failed \/ ~ok)
        /\ UNCHANGED <<localFile, uploading, selectedFile, uploadedFiles, sent, exceptPage>>

\* The five column states.
Axes == {"xCol", "yCol", "zCol", "colorCol", "sizeCol"}

\* The columns of a header list.
Range(cols) == {cols[i] : i \in 1..Len(cols)}

\* UploadPage.tsx:383-395, 419-433  the user picks an option of a Dropdown: one
\* of headers, or 'Select' (''). The dropdowns exist once headers is non-empty.
chooseColumn ==
    /\ headers # <<>>
    /\ \E axis \in Axes, opt \in Range(headers) \cup {""} :
          /\ mapping[axis] # opt
          /\ mapping' = [mapping EXCEPT ![axis] = opt]
    /\ sent < MaxSent
    /\ sent' = sent + 1
    /\ UNCHANGED <<localFile, headers, rawData, uploading, selectedFile, uploadedFiles,
                   pageError, inflight, failed, exceptPage>>

\* UploadPage.tsx:32-50  the page is mounted and the list of the sidebar loaded.
InitPage ==
    /\ InitState
    /\ recording = FALSE
    /\ Unmounted
    /\ NoCalls
    /\ NoPoints
    /\ FirstRender
    /\ uploadedFiles = Listed

NextPage ==
    \/ handleFileChange
    \/ handleUpload
    \/ UploadAnswered
    \/ ListRefreshed
    \/ handleFileSelect
    \/ SelectAnswered
    \/ chooseColumn

\* The upload page under user actions and responses arriving in any order.
SpecPage == InitPage /\ [][NextPage]_vars

(***************************************************************************)
(* Properties of the upload operation.                                     *)
(***************************************************************************)
\* The current request passed the extension and the size validation of a .csv.
ValidCsvRequest == hasFile /\ validateUpload(TRUE, file) = "ok" /\ ext(file) = ExtCsv

\* The current request passed the extension and the size validation of a .json.
ValidJsonRequest == hasFile /\ validateUpload(TRUE, file) = "ok" /\ ext(file) = ExtJson

\* The registry holds no row of the current request.
NotSaved == \A r \in registry : r.filename # filename

\* A failure response: an error status, no headers, no records.
IsFailure(r) ==
    /\ r.status \in {400, 500}
    /\ ~r.success
    /\ r.headers = <<>>
    /\ r.data = <<>>

C1_AtLimitAccepted ==
    /\ ValidCsvRequest
    /\ pc = "done"
    /\ rowCount = RowLimit
    /\ res.success

\* The response rejects the upload because of its size in bytes or characters.
SizeRejected == res.error = ErrTooLarge \/ res.details = MsgJsonTooLarge

HasExtension(name, e) ==
    /\ Len(name) > Len(e)
    /\ toLowerCase(SubSeq(name, Len(name) - Len(e) + 1, Len(name))) = e

\* C3: an upload whose extension is neither .csv nor .json (case-insensitive)
\* is always answered with the unsupported-format error, whatever its size or
\* content, and is neither parsed nor saved.
C3_UnsupportedExtensionRejected ==
    (hasFile /\ ~HasExtension(file.name, ExtCsv) /\ ~HasExtension(file.name, ExtJson)) =>
        /\ pc = "done"
        /\ IsFailure(res)
        /\ res.status = 400
        /\ res.error = ErrUnsupported
        /\ pos = 0
        /\ rowCount = 0
        /\ parsedData = <<>>
        /\ metadata = EmptyMetadata
        /\ saves = 0
        /\ NotSaved

C3_Witness ==
    /\ hasFile
    /\ ~HasExtension(file.name, ExtCsv)
    /\ ~HasExtension(file.name, ExtJson)
    /\ file.size > 50 * 1024 * 1024
    /\ res.error = ErrUnsupported

\* C4 as stated: the four failure causes (empty file, unsupported extension,
\* byte size, row count) are answered with pairwise different error kinds.
C4_Original ==
    \A a \in log, b \in log :
        (a.cause # "none" /\ b.cause # "none" /\ a.cause # b.cause)
            => a.answer.error # b.answer.error

\* C5: every successful upload response has rowCount equal to the number of
\* returned records, and the stored preview is the first min(5, rowCount)
\* records in parse order.
C5_RowCountAndPreview ==
    (pc = "done" /\ res.success) =>
        /\ res.metadata.rowCount = Len(res.data)
        /\ metadata.rows = Len(res.data)
        /\ metadata.preview = SubSeq(res.data, 1, Min(5, res.metadata.rowCount))

C5_Witness ==
    /\ pc = "done"
    /\ res.success
    /\ ValidCsvRequest
    /\ Len(res.data) > 5
    /\ Len(metadata.preview) = 5

\* JSON case of C5 (reachability check).
C5_JsonReached ==
    /\ pc = "done"
    /\ res.success
    /\ ValidJsonRequest
    /\ Len(res.data) > 5
    /\ Len(metadata.preview) = 5

\* C6: the upload never answers success, and never saves, with zero records or
\* with an empty column list: when parsing left no record or no column the
\* request fails.
C6_NeverEmptyDataset ==
    /\ (res.success \/ saves > 0 \/ ~NotSaved) =>
          /\ Len(parsedData) > 0
          /\ metadata.rows > 0
          /\ Len(metadata.columns) > 0
    /\ res.success => (Len(res.data) > 0 /\ Len(res.headers) > 0)
    /\ (pc = "done" /\ hasFile /\ validateUpload(TRUE, file) = "ok"
          /\ (Len(parsedData) = 0 \/ Len(metadata.columns) = 0)) =>
          (IsFailure(res) /\ saves = 0 /\ NotSaved)

C6_Witness ==
    /\ pc = "done"
    /\ Len(parsedData) > 0
    /\ Len(metadata.columns) = 0
    /\ res.details = MsgNoColumns
    /\ saves = 0

\* The records the upload holds, as the parse delivers them.
ParsedRecords(f) ==
    IF ext(f) = ExtCsv
    THEN [i \in 1..Len(f.lines) |-> cleanRowOf(csvParserRow(f.lines[i]), <<>>)]
    ELSE jsonRows(f.json)

\* C7: when the Registry save fails after a successful parse the request still
\* succeeds and returns the full headers and records.
C7_SaveFailureNonFatal ==
    (pc = "done" /\ saves > 0 /\ ~dbOk) =>
        /\ res.status = 200
        /\ res.success
        /\ res.headers = metadata.columns
        /\ Len(res.headers) > 0
        /\ res.data = ParsedRecords(file)
        /\ NotSaved

C7_Witness ==
    /\ pc = "done"
    /\ saves > 0
    /\ ~dbOk
    /\ res.success
    /\ Len(res.data) > 0

\* C8 as stated: the answer to an upload whose metadata was not saved differs
\* from the answer to a fully successful upload and from the answer to a parse
\* failure.
C8_Original ==
    \A a \in log, b \in log :
        (a.outcome = "unsaved" /\ b.outcome \in {"saved", "parseFailure"})
            => a.answer # b.answer

\* C9: in any upload request the Registry save is attempted at most once, and
\* only after extension validation, size validation, parsing and the
\* empty-dataset checks have passed; a request that ends in failure has
\* performed no save.
C9_SaveOnlyAfterValidation ==
    /\ saves <= 1
    /\ (saves > 0 \/ ~NotSaved) =>
          /\ hasFile
          /\ HasExtension(file.name, ExtCsv) \/ HasExtension(file.name, ExtJson)
          /\ file.size <= 50 * 1024 * 1024
          /\ rejection = ""
          /\ parsedData = ParsedRecords(file)
          /\ Len(parsedData) > 0
          /\ Len(metadata.columns) > 0
          /\ pc \in {"saving", "done"}
    /\ (pc = "done" /\ ~res.success) => (saves = 0 /\ NotSaved)
    /\ ~NotSaved => (saves = 1 /\ dbOk /\ pc = "done")

C9_Witness ==
    /\ pc = "done"
    /\ saves = 1
    /\ dbOk
    /\ ~NotSaved

\* The first record of the scenario file under its header names.
ScenarioFirstRecord ==
    << <<T1("x"), T1("1")>>, <<T1("y"), T1("2")>>, <<T1("z"), T1("3")>> >>

\* C10 as stated: uploading the CSV x,y,z / 1,2,3 / 4,5,6 / 7,8,9 yields the
\* headers [x, y, z] and exactly 3 records, the first being x="1", y="2",
\* z="3".
C10_Original ==
    (pc = "done" /\ ValidCsvRequest /\ file.lines = ScenarioCsv /\ res.success) =>
        /\ res.headers = <<T1("x"), T1("y"), T1("z")>>
        /\ Len(res.data) = 3
        /\ res.data[1] = ScenarioFirstRecord

(***************************************************************************)
(* Properties of the parsed columns and records.                           *)
(***************************************************************************)
\* The request ended with the success response.
Succeeded == pc = "done" /\ res.success

\* The index of the first of the records d that has the key k.
FirstRowWith(d, k) ==
    CHOOSE i \in 1..Len(d) :
        /\ \E j \in 1..Len(d[i]) : d[i][j][1] = k
        /\ \A i2 \in 1..(i - 1) : \A j \in 1..Len(d[i2]) : d[i2][j][1] # k

\* The position of the key k in the record r.
KeyIndex(r, k) == CHOOSE j \in 1..Len(r) : r[j][1] = k

\* The key a is met before the key b when the records d are read in order,
\* each from its first key to its last.
SeenBefore(d, a, b) ==
    \/ FirstRowWith(d, a) < FirstRowWith(d, b)
    \/ /\ FirstRowWith(d, a) = FirstRowWith(d, b)
       /\ KeyIndex(d[FirstRowWith(d, a)], a) < KeyIndex(d[FirstRowWith(d, b)], b)

\* C11: the column list returned for a CSV is the union of the keys of all
\* returned records, without duplicates and in first-seen order: every key of
\* every record is in headers, every header is a key of some record, and a
\* header stands before another exactly when its key is met first.
C11_ColumnsAreUnionFirstSeen ==
    (Succeeded /\ ValidCsvRequest) =>
        LET h == res.headers
            d == res.data
        IN /\ \A i \in 1..Len(d) : \A j \in 1..Len(d[i]) :
                  \E c \in 1..Len(h) : h[c] = d[i][j][1]
           /\ \A c \in 1..Len(h) :
                  \E i \in 1..Len(d) : \E j \in 1..Len(d[i]) : d[i][j][1] = h[c]
           /\ \A c1, c2 \in 1..Len(h) : c1 # c2 => h[c1] # h[c2]
           /\ \A c1, c2 \in 1..Len(h) : c1 < c2 => SeenBefore(d, h[c1], h[c2])
           /\ res.metadata.columnCount = Len(h)

\* A later ragged row brought a key the first row does not have.
C11_Witness ==
    /\ Succeeded
    /\ ValidCsvRequest
    /\ Len(res.data) >= 2
    /\ Len(res.headers) > Len(res.data[1])
    /\ res.headers[Len(res.headers)] = res.data[Len(res.data)][Len(res.headers)][1]

\* The text s neither begins nor ends with white space.
NoSurroundingSpace(s) ==
    s = <<>> \/ (s[1] \notin WhiteSpace /\ s[Len(s)] \notin WhiteSpace)

\* C12 as stated: no key and no value of any record returned for a CSV begins
\* or ends with white space.
C12_Original ==
    (Succeeded /\ ValidCsvRequest) =>
        \A i \in 1..Len(res.data) : \A j \in 1..Len(res.data[i]) :
            /\ NoSurroundingSpace(res.data[i][j][1])
            /\ NoSurroundingSpace(res.data[i][j][2])

\* C13: for a JSON upload a top-level array yields one record per element in
\* order (rowCount is the length of the array), and a top-level value that is
\* no array is returned as the single record (rowCount is 1).
C13_JsonRecords ==
    (Succeeded /\ ValidJsonRequest) =>
        IF file.json.t = "array"
        THEN /\ res.data = file.json.items
             /\ res.metadata.rowCount = Len(file.json.items)
        ELSE /\ res.data = <<file.json>>
             /\ res.metadata.rowCount = 1

\* A top-level object was wrapped.
C13_Witness ==
    /\ Succeeded
    /\ ValidJsonRequest
    /\ file.json.t = "object"
    /\ res.data = <<file.json>>
    /\ res.metadata.rowCount = 1

\* Array case of C13 (reachability check).
C13_ArrayReached ==
    /\ Succeeded
    /\ ValidJsonRequest
    /\ file.json.t = "array"
    /\ Len(res.data) = 2
    /\ res.data[1] # res.data[2]

\* The JSON value v is a non-null object in the sense of the language: typeof
\* v is 'object' and v is not null (arrays included).
NonNullObject(v) == v.t \in {"object", "array"}

\* The keys of v in its native order (the indices, for an array).
NativeKeys(v) ==
    IF v.t = "array" THEN [i \in 1..Len(v.items) |-> <<Digits[i]>>]
    ELSE [i \in 1..Len(v.kv) |-> v.kv[i][1]]

\* C14: for a JSON upload the columns are the keys, in native key order, of
\* the first record that is a non-null object; keys that only later records
\* have are not added, and a file whose first such record has keys is not
\* rejected because later records have other keys.
C14_JsonColumnsFromFirstObject ==
    /\ (Succeeded /\ ValidJsonRequest) =>
          \E i \in 1..Len(res.data) :
              /\ NonNullObject(res.data[i])
              /\ \A j \in 1..(i - 1) : ~NonNullObject(res.data[j])
              /\ res.headers = NativeKeys(res.data[i])
    /\ (pc = "done" /\ ValidJsonRequest /\ file.jsonValid
          /\ file.textLen <= JsonTextLimit /\ file.json.t = "array"
          /\ Len(file.json.items) \in 1..RowLimit
          /\ file.json.items[1].t = "object"
          /\ file.json.items[1].kv # <<>>) => res.success

\* A later record has a key that is no column.
C14_Witness ==
    /\ Succeeded
    /\ ValidJsonRequest
    /\ Len(res.data) = 2
    /\ res.headers = <<Ka>>
    /\ \E j \in 1..Len(res.data[2].kv) : res.data[2].kv[j][1] = Kb

\* C15: a JSON upload is rejected, returns no data and saves nothing when its
\* text is no JSON, when it holds more than RowLimit records, or when none of
\* its records is a non-null object.
C15_JsonRejections ==
    (pc = "done" /\ ValidJsonRequest) =>
        LET records == IF file.json.t = "array" THEN file.json.items
                       ELSE <<file.json>>
            rejected == IsFailure(res) /\ saves = 0 /\ NotSaved
        IN /\ ~file.jsonValid => rejected
           /\ (file.jsonValid /\ Len(records) > RowLimit) => rejected
           /\ (file.jsonValid /\ \A i \in 1..Len(records) : ~NonNullObject(records[i]))
                 => rejected

\* More than RowLimit records, every one an object.
C15_Witness ==
    /\ pc = "done"
    /\ ValidJsonRequest
    /\ file.jsonValid
    /\ file.textLen <= JsonTextLimit
    /\ file.json.t = "array"
    /\ Len(file.json.items) > RowLimit
    /\ res.details = MsgJsonTooMany
    /\ IsFailure(res)

\* Text that is no JSON (reachability check).
C15_InvalidReached ==
    /\ pc = "done"
    /\ ValidJsonRequest
    /\ ~file.jsonValid
    /\ file.textLen \in 1..JsonTextLimit
    /\ res.details = MsgInvalidJson

\* No record is a non-null object (reachability check).
C15_NoObjectReached ==
    /\ pc = "done"
    /\ ValidJsonRequest
    /\ file.jsonValid
    /\ file.json.t = "array"
    /\ Len(file.json.items) = 2
    /\ res.details = MsgNoObjects

(***************************************************************************)
(* Properties of the axis scale.                                           *)
(***************************************************************************)
\* The scale of the axis has been built from values and targetRange.
Built == view \in {"scaled", "placed"}

\* The least and the greatest of the values (of a non-empty list).
Least == CHOOSE v \in {values[i] : i \in 1..Len(values)} :
            \A i \in 1..Len(values) : FLe(v, values[i])
Greatest == CHOOSE v \in {values[i] : i \in 1..Len(values)} :
               \A i \in 1..Len(values) : FLe(values[i], v)

\* The values are not all equal.
NotAllEqual == values # <<>> /\ ~FEq(Least, Greatest)

\* The values span zero.
SpansZero == values # <<>> /\ FLt(Least, F0) /\ FLt(F0, Greatest)

\* a and b agree up to rounding: they differ by at most 2^-48 of the larger.
Close(a, b) ==
    FLe(MathAbs(FSub(a, b)),
        FMul(FRound(0, <<1>>, -48, FALSE), MathMax2(MathAbs(a), MathAbs(b))))

\* The part of the output range that lies below zero.
NegativePortion ==
    FDiv(FNeg(scale.range[1]), FSub(scale.range[2], scale.range[1]))

\* C16 as stated: when the values span zero the scale maps the value 0 exactly
\* to the render coordinate 0, and its output range has the total width
\* 2 * targetRange, split between the negative and the positive side in
\* proportion to |min| and max (width and proportion up to rounding).
C16_Original ==
    (Built /\ SpansZero) =>
        /\ FEq(bimap(scale, F0), F0)
        /\ Close(FSub(scale.range[2], scale.range[1]), FMul(FromInt(2), targetRange))
        /\ Close(FMul(FNeg(scale.range[1]), Greatest),
                 FMul(scale.range[2], MathAbs(Least)))

\* What holds of C16: the width and the proportion, up to rounding, and the
\* value 0 is mapped to within 2^-48 of targetRange of the coordinate 0.
C16_UpToRounding ==
    (Built /\ SpansZero) =>
        /\ FLe(MathAbs(bimap(scale, F0)),
               FMul(FRound(0, <<1>>, -48, FALSE), targetRange))
        /\ Close(FSub(scale.range[2], scale.range[1]), FMul(FromInt(2), targetRange))
        /\ Close(FMul(FNeg(scale.range[1]), Greatest),
                 FMul(scale.range[2], MathAbs(Least)))

\* The scale of the values [-2, 3] with targetRange 10 has been built.
ScenarioScale ==
    /\ Built
    /\ values = <<FromInt(-2), FromInt(3)>>
    /\ targetRange = FromInt(10)

\* C17 as stated: for the values [-2, 3] and targetRange 10 the output range
\* spans 20 in total and its negative portion is approximately 44% of the span
\* (between 43% and 45%).
C17_Original ==
    ScenarioScale =>
        /\ Close(FSub(scale.range[2], scale.range[1]), FromInt(20))
        /\ FLe(FDiv(FromInt(43), FromInt(100)), NegativePortion)
        /\ FLe(NegativePortion, FDiv(FromInt(45), FromInt(100)))

\* C17, amended: for the values [-2, 3] and targetRange 10 the output range is
\* [-8, 12] up to rounding: it spans 20 in total and its negative portion is
\* 40% of the span.
C17_NegativePortion40 ==
    ScenarioScale =>
        /\ Close(FSub(scale.range[2], scale.range[1]), FromInt(20))
        /\ Close(NegativePortion, FDiv(FromInt(4), FromInt(10)))
        /\ Close(scale.range[1], FromInt(-8))
        /\ Close(scale.range[2], FromInt(12))

C17_Witness ==
    /\ ScenarioScale
    /\ view = "scaled"
    /\ FLt(scale.range[1], F0)
    /\ FLt(F0, scale.range[2])

\* C18: for values that are all non-negative and not all equal the scale has
\* the range [0, targetRange] and the domain [max(0, min - 0.1*(max-min)),
\* max + 0.1*(max-min)]; for values that are all non-positive and not all
\* equal it has the range [-targetRange, 0] and the domain
\* [min - 0.1*(max-min), min(0, max + 0.1*(max-min))]; the values [1, 2, 3]
\* with targetRange 10 give the range [0, 10].
C18_OneSidedScales ==
    (Built /\ NotAllEqual) =>
        LET pad == FMul(Lit0_1, FSub(Greatest, Least))
        IN /\ FLe(F0, Least) =>
                /\ scale.range = <<F0, targetRange>>
                /\ scale.domain = <<MathMax2(F0, FSub(Least, pad)), FAdd(Greatest, pad)>>
           /\ FLe(Greatest, F0) =>
                /\ scale.range = <<FNeg(targetRange), F0>>
                /\ scale.domain = <<FSub(Least, pad), MathMin2(F0, FAdd(Greatest, pad))>>
           /\ (values = <<FromInt(1), FromInt(2), FromInt(3)>> /\ targetRange = FromInt(10)) =>
                scale.range = <<FromInt(0), FromInt(10)>>

C18_Witness ==
    /\ Built
    /\ values = <<FromInt(1), FromInt(2), FromInt(3)>>
    /\ targetRange = FromInt(10)
    /\ scale.range = <<FromInt(0), FromInt(10)>>
    /\ FLt(F0, scale.domain[1])

\* Non-positive case of C18, with the upper end of the domain clamped at 0
\* (reachability check).
C18_NonPositiveReached ==
    /\ Built
    /\ NotAllEqual
    /\ FEq(Greatest, F0)
    /\ scale.range = <<FNeg(targetRange), F0>>
    /\ FEq(scale.domain[2], F0)

\* C19 as stated: a scale is built for every list of values, by the first
\* branch that applies: no value gives the domain [0, 1] and the range
\* [-targetRange, targetRange]; values all equal to v give the domain
\* [v - 1, v + 1] and the same range; and in every branch the domain has a
\* width strictly above zero.
C19_Original ==
    Built =>
        /\ values = <<>> =>
              /\ scale.domain = <<FromInt(0), FromInt(1)>>
              /\ scale.range = <<FNeg(targetRange), targetRange>>
        /\ (values # <<>> /\ FEq(Least, Greatest)) =>
              /\ scale.domain = <<FSub(Least, FromInt(1)), FAdd(Least, FromInt(1))>>
              /\ scale.range = <<FNeg(targetRange), targetRange>>
        /\ FLt(scale.domain[1], scale.domain[2])

\* What holds of C19: the same, with a width above zero as long as the values
\* are not all equal to one number of a magnitude above 2^53.
C19_BelowHuge ==
    Built =>
        /\ values = <<>> =>
              /\ scale.domain = <<FromInt(0), FromInt(1)>>
              /\ scale.range = <<FNeg(targetRange), targetRange>>
        /\ (values # <<>> /\ FEq(Least, Greatest)) =>
              /\ scale.domain = <<FSub(Least, FromInt(1)), FAdd(Least, FromInt(1))>>
              /\ scale.range = <<FNeg(targetRange), targetRange>>
        /\ (values = <<>> \/ NotAllEqual \/ FLt(MathAbs(Least), Huge)) =>
              FLt(scale.domain[1], scale.domain[2])

\* C20: in every branch for values that are not all equal (they span zero, are
\* all non-negative, or are all non-positive) the scale maps the lower end of
\* its domain exactly to the lower end of its range and the upper end of its
\* domain exactly to the upper end of its range.
C20_EndsMapToEnds ==
    (Built /\ NotAllEqual) =>
        /\ FEq(bimap(scale, scale.domain[1]), scale.range[1])
        /\ FEq(bimap(scale, scale.domain[2]), scale.range[2])
        /\ (view = "placed" /\ point = scale.domain[1]) => FEq(position, scale.range[1])
        /\ (view = "placed" /\ point = scale.domain[2]) => FEq(position, scale.range[2])

\* The upper end of the domain of a scale that spans zero was mapped.
C20_Witness ==
    /\ view = "placed"
    /\ SpansZero
    /\ point = scale.domain[2]
    /\ position = scale.range[2]
    /\ ~FEq(scale.range[2], targetRange)

(***************************************************************************)
(* Properties of the service with requests in progress at the same time.   *)
(***************************************************************************)
\* The upload requests in progress.
Uploads == {c \in Conns : calls[c].kind = "upload"}

\* The request of connection c has been answered.
Answered(c) == calls[c].pc = "done"

RECURSIVE LoneParse(_, _)
\* The parser state of a parse that runs alone, after n lines of the file.
LoneParse(lines, n) ==
    IF n = 0 THEN NoParser
    ELSE LET st == LoneParse(lines, n - 1)
             row == csvParserRow(lines[n])
             cleanRow == cleanRowOf(row, <<>>)
         IN [pos |-> n,
             columnsSet |-> columnsAfter(st.columnsSet, row),
             rowCount |-> st.rowCount + 1,
             previewRows |-> previewAfter(st.previewRows, cleanRow),
             allRows |-> Append(st.allRows, cleanRow),
             hasError |-> st.hasError \/ rowLimitExceeded(st.rowCount + 1)]

\* Metadata and records of the upload f when it is the only request.
Alone(f) ==
    IF ext(f) = ExtCsv
    THEN LET st == LoneParse(f.lines, Len(f.lines))
         IN [metadata |-> [columns |-> st.columnsSet, rows |-> st.rowCount,
                           preview |-> st.previewRows],
             parsedData |-> st.allRows]
    ELSE [metadata |-> jsonBranch(f, TRUE).metadata,
          parsedData |-> jsonBranch(f, TRUE).parsedData]

\* C21: two upload requests handled at the same time, their parser callbacks
\* interleaved in any order, produce what each would produce alone: at every
\* moment the column set, row counter, preview and record list of a request
\* are those of a lone parse of its own file up to the rows delivered to it,
\* and a request that gets past parsing holds, saves and returns the headers,
\* records, row count and preview of its own file.
C21_UploadsIndependent ==
    \A c \in Uploads :
        LET call == calls[c]
        IN /\ call.parser = LoneParse(call.file.lines, call.parser.pos)
           /\ (call.pc \in {"resolved", "saving"} \/ (call.pc = "done" /\ call.res.success)) =>
                 /\ call.metadata = Alone(call.file).metadata
                 /\ call.parsedData = Alone(call.file).parsedData
           /\ (call.pc = "done" /\ call.res.success) =>
                 call.res = SuccessRes(Alone(call.file).metadata,
                                       Alone(call.file).parsedData, call.file)

\* Two parses are in progress at once, a row delivered to each, and their
\* column sets differ.
C21_Witness ==
    /\ Uploads = Conns
    /\ \A c \in Conns : calls[c].pc = "parsing" /\ calls[c].parser.pos = 1
    /\ calls["c1"].parser.columnsSet # calls["c2"].parser.columnsSet

\* Both requests of such a pair are answered with success (reachability check).
C21_BothAnswered ==
    /\ Uploads = Conns
    /\ \A c \in Conns : Answered(c) /\ calls[c].res.success
    /\ calls["c1"].res.headers # calls["c2"].res.headers

\* The request of connection c is a route of the kind k that has been answered.
AnsweredAs(c, k) == calls[c].kind = k /\ calls[c].pc = "done"

\* C22: once a DELETE for an identifier has been answered with success, every
\* GET /file for it that arrives afterwards is answered 404 and no /files
\* listing requested afterwards holds it (identifiers are never given out
\* twice); the row is removed before the physical file, so every row of the
\* table has its file and a delete that is about to remove the file, or has
\* been answered with success, has left no row; and a failure to remove the
\* physical file leaves the delete response a success.
C22_DeletedStaysGone ==
    /\ \A r \in registry : r.filename \in disk
    /\ \A c \in Conns :
          LET call == calls[c]
          IN /\ (AnsweredAs(c, "get") /\ \E f \in call.after : Name(f) = call.name)
                   => call.res.status = 404
             /\ AnsweredAs(c, "list")
                   => \A i \in 1..Len(call.res.files) : call.res.files[i] \notin call.after
             /\ (call.kind = "delete" /\ (call.pc = "unlinking" \/ call.res.success))
                   => selectByFilename(registry, call.name) = {}
             /\ (AnsweredAs(c, "delete") /\ call.fsError)
                   => (call.res.status = 200 /\ call.res.success)

\* A GET for a deleted identifier was answered, the delete having failed to
\* remove the physical file.
C22_Witness ==
    \E c \in Conns :
        /\ AnsweredAs(c, "get")
        /\ \E f \in calls[c].after : Name(f) = calls[c].name /\ f \in disk
        /\ calls[c].res.status = 404

\* A delete that could not remove the file was answered with success
\* (reachability check).
C22_UnlinkFailureReached ==
    \E c \in Conns : AnsweredAs(c, "delete") /\ calls[c].fsError /\ calls[c].res.success

\* A listing requested after a delete was answered (reachability check).
C22_ListAfterDelete ==
    \E c \in Conns :
        /\ AnsweredAs(c, "list")
        /\ calls[c].after # {}
        /\ calls[c].res.success

\* C23 as stated: whatever the limit and offset parameters of GET /files, the
\* limit handed to the page query lies in 1..100 and the offset is at least 0,
\* and the response reports hasNext = (offset + limit < total) and
\* hasPrevious = (offset > 0).
C23_Original ==
    \A c \in Conns :
        calls[c].kind = "list" =>
            /\ calls[c].limitNum \in 1..100
            /\ calls[c].offsetNum >= 0
            /\ (calls[c].pc = "done" /\ calls[c].res.success) =>
                  LET p == calls[c].res.pagination
                  IN /\ p.limit = calls[c].limitNum
                     /\ p.offset = calls[c].offsetNum
                     /\ p.hasNext <=> (p.offset + p.limit < p.total)
                     /\ p.hasPrevious <=> (p.offset > 0)

\* An upload on connection c that carried a file and was answered with an error.
FailedUpload(c) ==
    /\ calls[c].kind = "upload"
    /\ calls[c].pc = "done"
    /\ ~calls[c].res.success
    /\ calls[c].file # NoFile

C24_UnsupportedRemoved ==
    \E c \in Conns : FailedUpload(c) /\ calls[c].res.status = 400
                     /\ calls[c].res.error = ErrUnsupported
                     /\ ~calls[c].cleanupError /\ calls[c].filename \notin disk

\* No request is being served.
Quiet == \A c \in Conns : calls[c] = Idle

\* C25 as stated: once the uploads and deletes issued so far have completed,
\* every physical file in the uploads directory has a Registry row with the
\* same identifier.
C25_Original ==
    Quiet => \A f \in disk : \E r \in registry : r.filename = f

\* C26 as stated: in every GET /files response, whatever uploads and deletes run
\* concurrently, the number of files returned is at most pagination.total minus
\* pagination.offset (an offset past the total leaving room for no file).
C26_Original ==
    \A c \in Conns :
        (AnsweredAs(c, "list") /\ calls[c].res.success) =>
            Len(calls[c].res.files)
                <= Max(calls[c].res.pagination.total - calls[c].res.pagination.offset, 0)

\* C27 as stated: at most one instance is drawn at the hover scale (1.15 times
\* the scale of its item), that instance is hoveredIndex, and with hoveredIndex
\* null every instance is drawn at the scale of its item.
C27_Original ==
    LET hovering == {i \in Instances : instanceScale[i] = HoverPercent}
    IN /\ Cardinality(hovering) <= 1
       /\ \A i \in hovering : i = hoveredIndex
       /\ hoveredIndex = Null => instanceScale = AllBase

\* C28 as stated: once no request of the page is in flight and selectedFile is
\* non-empty, headers and rawData are those the service returned for
\* selectedFile, whatever the order the responses arrived in (no request having
\* been answered with an error).
C28_Original ==
    (inflight = {} /\ selectedFile # "" /\ ~failed) =>
        /\ headers = ColumnsOf(selectedFile)
        /\ rawData = RowsOf(selectedFile)

\* C29 as stated: each of xCol, yCol, zCol, colorCol and sizeCol is '' or one of
\* the current headers.
C29_Original ==
    \A axis \in Axes : mapping[axis] = "" \/ mapping[axis] \in Range(headers)

\* The scale was last applied to one of the values it was built from.
SamplePlaced ==
    view = "placed" /\ \E i \in 1..Len(values) : values[i] = point

\* C30 as stated: the scale built from a non-empty list maps every value v of
\* the list into [-targetRange, targetRange], and when the values are not all
\* equal a value v >= 0 is mapped to a coordinate >= 0 and a value v <= 0 to a
\* coordinate <= 0.
C30_Original ==
    SamplePlaced =>
        /\ FLe(FNeg(targetRange), position)
        /\ FLe(position, targetRange)
        /\ NotAllEqual =>
              /\ FLe(F0, point) => FLe(F0, position)
              /\ FLe(point, F0) => FLe(position, F0)

\* C30, the part that is not a matter of rounding: a value of the list was
\* mapped strictly beyond targetRange.
C30_BeyondRange ==
    SamplePlaced /\ SpansZero /\ FLt(FMul(FromInt(21), targetRange), FMul(FromInt(20), position))

====
